---- MODULE Spec2Model ----
(***************************************************************************)
(* Shared status bar for MCP ACS extensions (src/src/index.ts).            *)
(*                                                                         *)
(* Every extension bundles its own copy of the module: an "instance" has   *)
(* its own module-level variables (activeExtensions, statusBarItem, the    *)
(* command disposables, lastError).  The instances of one extension host   *)
(* share one thing only: the host's table of named commands.               *)
(*                                                                         *)
(* registerExtension and unregisterExtension are async functions: the      *)
(* body runs up to its await, the awaited executeCommand runs the handler  *)
(* of the command (if one is registered) and the rest of the body runs in  *)
(* a later turn.  Each turn is one action of the model.                    *)
(***************************************************************************)
EXTENDS Integers, Sequences, FiniteSets, TLC

\* ------------------------------------------------------------------ bounds
NumInst == 3       \* module instances loaded in the extension host
MaxCalls == 4      \* calls issued in one behaviour of Spec
MaxSoloCalls == 8  \* calls issued in one behaviour of SpecSolo
MaxPending == 1    \* calls one instance may have in flight (not awaited)
MaxScenarioCalls == 3  \* calls issued in one behaviour of SpecScenario
MaxFaultCalls == 3 \* calls issued in one behaviour of SpecFaults

Inst == 1..NumInst
Ids == {"x-a", "x-b", "x-c"}
\* The ids the instances of Spec call with: any instance, any of these.
SharedIds == {"x-a", "x-b"}
\* The id an extension registers for itself, as the README's usage has it.
OwnIds == <<"x-a", "x-b", "x-c", "x-d", "x-e">>
OwnId(i) == OwnIds[i]
AllIds == Ids \cup {OwnId(i) : i \in Inst}

\* --------------------------------------------------------- program names
REGISTER_CMD == "mcp-acs.registerExtension"
UNREGISTER_CMD == "mcp-acs.unregisterExtension"
SHOW_MENU_CMD == "mcp-acs.showMenu"
DIAGNOSTICS_CMD == "mcp-acs.diagnostics"
CommandNames == {REGISTER_CMD, UNREGISTER_CMD, SHOW_MENU_CMD, DIAGNOSTICS_CMD}

\* The output channels the extensions create.
Channels == {"channel-1", "channel-2"}
NoChannel == "undefined"     \* outputChannel === undefined

NoOwner == 0                 \* the command name is free
Undefined == [oid |-> 0]     \* statusBarItem === undefined
NoError == "null"            \* lastError === null
STATUS_TEXT == "$(layers) ACS"

ERR_SHOW_MENU == "Failed to register mcp-acs.showMenu command:"
ERR_REGISTER == "Failed to register mcp-acs.registerExtension command:"
ERR_UNREGISTER == "Failed to register mcp-acs.unregisterExtension command:"
ERR_DISPOSE_SHOW_MENU == "Failed to dispose mcp-acs.showMenu command:"
ERR_DISPOSE_REGISTER == "Failed to dispose mcp-acs.registerExtension command:"
ERR_DISPOSE_UNREGISTER == "Failed to dispose mcp-acs.unregisterExtension command:"
ERR_HIDE == "Failed to hide status bar item:"
ERR_SHOW == "Failed to show status bar item:"
ERR_CREATE == "Failed to create status bar item:"
ERR_CREATE_UNDEFINED == "Status bar item creation returned undefined"
ERR_DISPOSE_COMMAND == "Failed to dispose command:"
ERR_DISPOSE_ITEM == "Failed to dispose status bar item:"
ERR_DIAGNOSTICS == "Failed to register mcp-acs.diagnostics command:"
ERR_DISPOSE_DIAGNOSTICS == "Failed to dispose diagnostic command:"
ERR_QUICK_PICK == "Failed to show quick pick menu:"

\* ------------------------------------------------------------ host faults
\* A host call that throws.  A turn of the program runs under a set f of
\* faults: every host call of the turn that f names throws.
Fault(call, arg) == [call |-> call, arg |-> arg]
F_CREATE == Fault("createStatusBarItem", "throws")
F_CREATE_UNDEFINED == Fault("createStatusBarItem", "undefined")
F_SHOW == Fault("show", "")
F_HIDE == Fault("hide", "")
F_DISPOSE_ITEM == Fault("dispose", "statusBarItem")
F_QUICK_PICK == Fault("showQuickPick", "")
HostFaults ==
  {Fault("registerCommand", n) : n \in CommandNames}
    \cup {Fault("dispose", n) : n \in CommandNames}
    \cup {F_CREATE, F_CREATE_UNDEFINED, F_SHOW, F_HIDE, F_DISPOSE_ITEM, F_QUICK_PICK}

\* The handler an owner registered for a relay command throws (its first
\* statement is a log call, lines 212 and 239): the forward is rejected
\* although the command exists.
HandlerFaults == {Fault("handler", n) : n \in {REGISTER_CMD, UNREGISTER_CMD}}

VARIABLES
  activeExtensions,            \* [Inst -> SUBSET Ids]   the Set of each instance
  statusBarItem,               \* [Inst -> item record or Undefined]
  commandDisposable,           \* [Inst -> BOOLEAN] handle of mcp-acs.showMenu held
  registerCommandDisposable,   \* [Inst -> BOOLEAN] handle of mcp-acs.registerExtension held
  unregisterCommandDisposable, \* [Inst -> BOOLEAN] handle of mcp-acs.unregisterExtension held
  lastError,                   \* [Inst -> STRING]
  diagnosticCommandDisposable, \* [Inst -> BOOLEAN] handle of mcp-acs.diagnostics held
  outputChannel,               \* [Inst -> Channels \cup {NoChannel}]
  commands,                    \* [CommandNames -> Inst \cup {NoOwner}] the host's command table
  createCalls,                 \* [Inst -> Nat] createStatusBarItem calls since the instance's last dispose()
  pending,                     \* [Inst -> Seq(call)] calls suspended at an await
  env,                         \* the instances that issue calls, the host calls that may throw,
                               \* the ids they call with (scenario: each instance its own id,
                               \* and the calls are recorded in trace), the output channels
                               \* they pass, the calls one instance may have in flight
  budget,                      \* calls that may still be issued
  trace,                       \* history: the registerExtension, unregisterExtension and dispose
                               \* calls issued, in order (recorded when env.scenario)
  refSet,                      \* history: ids registered and not unregistered since, by order of issue
  overlapped,                  \* history: a call was issued by an instance with a call in flight
  turn,                        \* history: the turn that led to this state
  hostCalls,                   \* history: the host calls of that turn, in order, with their outcome
  uncaught                     \* history: an exception left that turn uncaught

progVars == <<activeExtensions, statusBarItem, commandDisposable,
              registerCommandDisposable, unregisterCommandDisposable,
              lastError, diagnosticCommandDisposable, outputChannel,
              commands, createCalls>>
histVars == <<trace, refSet, overlapped, turn, hostCalls, uncaught>>
vars == <<progVars, pending, env, budget, histVars>>

\* The module state of all instances and the host's command table, as one
\* value, at the start of a turn: no host call made, no exception raised.
World ==
  [activeExtensions |-> activeExtensions,
   statusBarItem |-> statusBarItem,
   commandDisposable |-> commandDisposable,
   registerCommandDisposable |-> registerCommandDisposable,
   unregisterCommandDisposable |-> unregisterCommandDisposable,
   lastError |-> lastError,
   diagnosticCommandDisposable |-> diagnosticCommandDisposable,
   outputChannel |-> outputChannel,
   commands |-> commands,
   createCalls |-> createCalls,
   calls |-> <<>>,
   thrown |-> FALSE]

Install(w) ==
  /\ activeExtensions' = w.activeExtensions
  /\ statusBarItem' = w.statusBarItem
  /\ commandDisposable' = w.commandDisposable
  /\ registerCommandDisposable' = w.registerCommandDisposable
  /\ unregisterCommandDisposable' = w.unregisterCommandDisposable
  /\ lastError' = w.lastError
  /\ diagnosticCommandDisposable' = w.diagnosticCommandDisposable
  /\ outputChannel' = w.outputChannel
  /\ commands' = w.commands
  /\ createCalls' = w.createCalls
  /\ hostCalls' = w.calls
  /\ uncaught' = w.thrown

\* A turn that makes no host call and changes nothing of the program.
Idle ==
  /\ UNCHANGED progVars
  /\ hostCalls' = <<>>
  /\ uncaught' = FALSE

\* ------------------------------------------------------------ host calls
\* The record of a host call made by instance i in the turn.
called(w, i, call, arg, ok) ==
  [w EXCEPT !.calls = Append(@, [inst |-> i, call |-> call, arg |-> arg, ok |-> ok,
                                 items |-> {}])]

\* vscode.commands.registerCommand(name, handler) by instance i: throws when
\* the name is taken, otherwise enters the name in the host's table.
registerCommand(w, i, name, f) ==
  IF w.commands[name] # NoOwner \/ Fault("registerCommand", name) \in f
    THEN [ok |-> FALSE, w |-> called(w, i, "registerCommand", name, FALSE)]
    ELSE [ok |-> TRUE,
          w |-> [called(w, i, "registerCommand", name, TRUE) EXCEPT !.commands[name] = i]]

\* Disposable.dispose() of the handle instance i got for name: removes the
\* entry the handle stands for.
disposeCommand(w, i, name, f) ==
  IF Fault("dispose", name) \in f
    THEN [ok |-> FALSE, w |-> called(w, i, "dispose", name, FALSE)]
    ELSE [ok |-> TRUE,
          w |-> LET wc == called(w, i, "dispose", name, TRUE)
                IN IF w.commands[name] = i
                     THEN [wc EXCEPT !.commands[name] = NoOwner] ELSE wc]

\* logError: remembers the message in lastError.
logError(w, i, message) == [w EXCEPT !.lastError[i] = message]

\* ------------------------------------------------------- updateStatusBar
\* The object createStatusBarItem returns, with the command set at lines 544-546.
NewItem(w, i) ==
  [oid |-> w.createCalls[i] + 1,
   text |-> "",
   tooltip |-> 0,
   command |-> IF w.commandDisposable[i] THEN SHOW_MENU_CMD ELSE "",
   visible |-> FALSE]

\* A variant that sets text and tooltip but leaves out show().
showStatusBarNoShow(w, i, f) ==
  [w EXCEPT !.statusBarItem[i].text = STATUS_TEXT,
            !.statusBarItem[i].tooltip = Cardinality(w.activeExtensions[i])]

\* A variant with show() outside a try block: its exception leaves the turn.
showStatusBarUnguarded(w, i, f) ==
  LET w1 == [w EXCEPT !.statusBarItem[i].text = STATUS_TEXT,
                      !.statusBarItem[i].tooltip = Cardinality(w.activeExtensions[i])]
  IN IF F_SHOW \in f
       THEN [called(w1, i, "show", "", FALSE) EXCEPT !.thrown = TRUE]
       ELSE [called(w1, i, "show", "", TRUE) EXCEPT !.statusBarItem[i].visible = TRUE]

\* A variant that sets the tooltip of a new item only.
showStatusBarStaleTooltip(w, i, f) ==
  LET w1 == [w EXCEPT !.statusBarItem[i].text = STATUS_TEXT,
                      !.statusBarItem[i].tooltip =
                         IF @ = 0 THEN Cardinality(w.activeExtensions[i]) ELSE @]
  IN IF F_SHOW \in f
       THEN logError(called(w1, i, "show", "", FALSE), i, ERR_SHOW)
       ELSE [called(w1, i, "show", "", TRUE) EXCEPT !.statusBarItem[i].visible = TRUE]

\* Lines 559-569: text, tooltip and show() on the item the instance holds.
showStatusBar(w, i, f) ==
  LET w1 == [w EXCEPT !.statusBarItem[i].text = STATUS_TEXT,
                      !.statusBarItem[i].tooltip = Cardinality(w.activeExtensions[i])]
  IN IF F_SHOW \in f
       THEN logError(called(w1, i, "show", "", FALSE), i, ERR_SHOW)
       ELSE [called(w1, i, "show", "", TRUE) EXCEPT !.statusBarItem[i].visible = TRUE]

\* A variant without the check of line 520: a status bar item is created
\* whenever the count is positive.
updateStatusBarDoubling(w, i, f) ==
  IF w.activeExtensions[i] = {}
    THEN IF w.statusBarItem[i] # Undefined
           THEN [called(w, i, "hide", "", TRUE) EXCEPT !.statusBarItem[i].visible = FALSE]
           ELSE w
    ELSE showStatusBar([called(w, i, "createStatusBarItem", "", TRUE)
                          EXCEPT !.createCalls[i] = @ + 1,
                                 !.statusBarItem[i] = NewItem(w, i)], i, f)

\* A variant that returns at count 0 without hiding the item.
updateStatusBarNoHide(w, i, f) ==
  IF w.activeExtensions[i] = {}
    THEN w
    ELSE IF w.statusBarItem[i] = Undefined
      THEN showStatusBar([called(w, i, "createStatusBarItem", "", TRUE)
                            EXCEPT !.createCalls[i] = @ + 1,
                                   !.statusBarItem[i] = NewItem(w, i)], i, f)
      ELSE showStatusBar(w, i, f)

\* A variant that disposes the status bar item when the last id is gone, as
\* dispose() does.
updateStatusBarDisposeOnEmpty(w, i, f) ==
  IF w.activeExtensions[i] = {}
    THEN IF w.statusBarItem[i] # Undefined
           THEN [called(w, i, "dispose", "statusBarItem", TRUE)
                   EXCEPT !.statusBarItem[i] = Undefined, !.createCalls[i] = 0]
           ELSE w
    ELSE IF w.statusBarItem[i] = Undefined
      THEN showStatusBar([called(w, i, "createStatusBarItem", "", TRUE)
                            EXCEPT !.createCalls[i] = @ + 1,
                                   !.statusBarItem[i] = NewItem(w, i)], i, f)
      ELSE showStatusBar(w, i, f)

\* A variant whose catch block of the creation (lines 546-549) returns
\* without logError.
updateStatusBarCreateUnrecorded(w, i, f) ==
  IF w.activeExtensions[i] = {}
    THEN IF w.statusBarItem[i] # Undefined
           THEN IF F_HIDE \in f
                  THEN logError(called(w, i, "hide", "", FALSE), i, ERR_HIDE)
                  ELSE [called(w, i, "hide", "", TRUE)
                          EXCEPT !.statusBarItem[i].visible = FALSE]
           ELSE w
    ELSE IF w.statusBarItem[i] = Undefined
      THEN LET wc == [w EXCEPT !.createCalls[i] = @ + 1]
           IN IF F_CREATE \in f
                THEN called(wc, i, "createStatusBarItem", "", FALSE)
                ELSE IF F_CREATE_UNDEFINED \in f
                  THEN [called(wc, i, "createStatusBarItem", "", FALSE)
                          EXCEPT !.lastError[i] = ERR_CREATE_UNDEFINED]
                  ELSE showStatusBar([called(wc, i, "createStatusBarItem", "", TRUE)
                                        EXCEPT !.statusBarItem[i] = NewItem(w, i)], i, f)
      ELSE showStatusBar(w, i, f)

updateStatusBar(w, i, f) ==
  IF w.activeExtensions[i] = {}
    THEN IF w.statusBarItem[i] # Undefined
           THEN IF F_HIDE \in f
                  THEN logError(called(w, i, "hide", "", FALSE), i, ERR_HIDE)
                  ELSE [called(w, i, "hide", "", TRUE)
                          EXCEPT !.statusBarItem[i].visible = FALSE]
           ELSE w
    ELSE IF w.statusBarItem[i] = Undefined
      THEN LET wc == [w EXCEPT !.createCalls[i] = @ + 1]
           IN IF F_CREATE \in f
                THEN logError(called(wc, i, "createStatusBarItem", "", FALSE), i, ERR_CREATE)
                ELSE IF F_CREATE_UNDEFINED \in f
                  THEN [called(wc, i, "createStatusBarItem", "", FALSE)
                          EXCEPT !.lastError[i] = ERR_CREATE_UNDEFINED]
                  ELSE showStatusBar([called(wc, i, "createStatusBarItem", "", TRUE)
                                        EXCEPT !.statusBarItem[i] = NewItem(w, i)], i, f)
      ELSE showStatusBar(w, i, f)

\* ------------------------------------------------------ internalRegister
\* A variant that creates a status bar item for every registration (the
\* status bar doubling the comments of updateStatusBar speak of).
internalRegisterDoubling(w, i, extensionId, f) ==
  LET w1 == [w EXCEPT !.activeExtensions[i] = @ \cup {extensionId}]
      rc == registerCommand(w1, i, SHOW_MENU_CMD, f)
      w2 == IF w.activeExtensions[i] = {}
              THEN IF rc.ok
                     THEN [rc.w EXCEPT !.commandDisposable[i] = TRUE]
                     ELSE logError(rc.w, i, ERR_SHOW_MENU)
              ELSE w1
  IN showStatusBar([called(w2, i, "createStatusBarItem", "", TRUE)
                      EXCEPT !.createCalls[i] = @ + 1,
                             !.statusBarItem[i] = NewItem(w2, i)], i, f)

\* A variant that gives the registration up when mcp-acs.showMenu cannot be
\* registered: the id is added only after the command.
internalRegisterAddLast(w, i, extensionId, f) ==
  LET wasEmpty == w.activeExtensions[i] = {}
      previousSize == Cardinality(w.activeExtensions[i])
      rc == registerCommand(w, i, SHOW_MENU_CMD, f)
      w1 == [w EXCEPT !.activeExtensions[i] = @ \cup {extensionId}]
      countChanged == Cardinality(w1.activeExtensions[i]) # previousSize
  IN IF wasEmpty
       THEN IF rc.ok
              THEN updateStatusBar([rc.w EXCEPT !.commandDisposable[i] = TRUE,
                                                !.activeExtensions[i] = @ \cup {extensionId}],
                                   i, f)
              ELSE logError(rc.w, i, ERR_SHOW_MENU)
       ELSE IF countChanged THEN updateStatusBar(w1, i, f) ELSE w1

\* A variant that recomputes the status bar on every registration, also
\* when the id was registered already.
internalRegisterAlwaysUpdate(w, i, extensionId, f) ==
  LET wasEmpty == w.activeExtensions[i] = {}
      w1 == [w EXCEPT !.activeExtensions[i] = @ \cup {extensionId}]
      rc == registerCommand(w1, i, SHOW_MENU_CMD, f)
      w2 == IF wasEmpty
              THEN IF rc.ok
                     THEN [rc.w EXCEPT !.commandDisposable[i] = TRUE]
                     ELSE logError(rc.w, i, ERR_SHOW_MENU)
              ELSE w1
  IN updateStatusBar(w2, i, f)

\* A variant without lines 283-285: the command is bound only when the item
\* is created.
internalRegisterNoBind(w, i, extensionId, f) ==
  LET wasEmpty == w.activeExtensions[i] = {}
      previousSize == Cardinality(w.activeExtensions[i])
      w1 == [w EXCEPT !.activeExtensions[i] = @ \cup {extensionId}]
      countChanged == Cardinality(w1.activeExtensions[i]) # previousSize
      rc == registerCommand(w1, i, SHOW_MENU_CMD, f)
      w2 == IF wasEmpty /\ w1.activeExtensions[i] # {}
              THEN IF rc.ok
                     THEN [rc.w EXCEPT !.commandDisposable[i] = TRUE]
                     ELSE logError(rc.w, i, ERR_SHOW_MENU)
              ELSE w1
  IN IF countChanged THEN updateStatusBar(w2, i, f) ELSE w2

internalRegister(w, i, extensionId, f) ==
  LET wasEmpty == w.activeExtensions[i] = {}
      previousSize == Cardinality(w.activeExtensions[i])
      w1 == [w EXCEPT !.activeExtensions[i] = @ \cup {extensionId}]
      countChanged == Cardinality(w1.activeExtensions[i]) # previousSize
      rc == registerCommand(w1, i, SHOW_MENU_CMD, f)
      w2 == IF wasEmpty /\ w1.activeExtensions[i] # {}
              THEN IF rc.ok
                     THEN LET w2a == [rc.w EXCEPT !.commandDisposable[i] = TRUE]
                          IN IF w2a.statusBarItem[i] # Undefined
                               THEN [w2a EXCEPT !.statusBarItem[i].command = SHOW_MENU_CMD]
                               ELSE w2a
                     ELSE logError(rc.w, i, ERR_SHOW_MENU)
              ELSE w1
  IN IF countChanged THEN updateStatusBar(w2, i, f) ELSE w2

\* ---------------------------------------------------- internalUnregister
\* A variant that keeps the relay commands when the last extension
\* unregisters (lines 355-375 left out).
internalUnregisterSticky(w, i, extensionId, f) ==
  IF extensionId \notin w.activeExtensions[i]
    THEN w
    ELSE
      LET w1 == [w EXCEPT !.activeExtensions[i] = @ \ {extensionId}]
          d2 == disposeCommand(w1, i, SHOW_MENU_CMD, f)
          w2 == IF w1.activeExtensions[i] = {} /\ w1.commandDisposable[i]
                  THEN IF d2.ok
                         THEN [d2.w EXCEPT !.commandDisposable[i] = FALSE]
                         ELSE logError(d2.w, i, ERR_DISPOSE_SHOW_MENU)
                  ELSE w1
      IN updateStatusBar(w2, i, f)

\* A variant that clears the Set instead of deleting the one id.
internalUnregisterClear(w, i, extensionId, f) ==
  IF extensionId \notin w.activeExtensions[i]
    THEN w
    ELSE
      LET w1 == [w EXCEPT !.activeExtensions[i] = {}]
          d2 == disposeCommand(w1, i, SHOW_MENU_CMD, f)
          w2 == IF w1.commandDisposable[i]
                  THEN IF d2.ok
                         THEN [d2.w EXCEPT !.commandDisposable[i] = FALSE]
                         ELSE logError(d2.w, i, ERR_DISPOSE_SHOW_MENU)
                  ELSE w1
          d3 == disposeCommand(w2, i, REGISTER_CMD, f)
          w3 == IF w2.registerCommandDisposable[i]
                  THEN IF d3.ok
                         THEN [d3.w EXCEPT !.registerCommandDisposable[i] = FALSE]
                         ELSE logError(d3.w, i, ERR_DISPOSE_REGISTER)
                  ELSE w2
          d4 == disposeCommand(w3, i, UNREGISTER_CMD, f)
          w4 == IF w3.unregisterCommandDisposable[i]
                  THEN IF d4.ok
                         THEN [d4.w EXCEPT !.unregisterCommandDisposable[i] = FALSE]
                         ELSE logError(d4.w, i, ERR_DISPOSE_UNREGISTER)
                  ELSE w3
      IN updateStatusBar(w4, i, f)

\* A variant that keeps the show-menu command when the last extension
\* unregisters (lines 344-353 left out).
internalUnregisterKeepMenu(w, i, extensionId, f) ==
  IF extensionId \notin w.activeExtensions[i]
    THEN w
    ELSE
      LET w2 == [w EXCEPT !.activeExtensions[i] = @ \ {extensionId}]
          empty == w2.activeExtensions[i] = {}
          d3 == disposeCommand(w2, i, REGISTER_CMD, f)
          w3 == IF empty /\ w2.registerCommandDisposable[i]
                  THEN IF d3.ok
                         THEN [d3.w EXCEPT !.registerCommandDisposable[i] = FALSE]
                         ELSE logError(d3.w, i, ERR_DISPOSE_REGISTER)
                  ELSE w2
          d4 == disposeCommand(w3, i, UNREGISTER_CMD, f)
          w4 == IF empty /\ w3.unregisterCommandDisposable[i]
                  THEN IF d4.ok
                         THEN [d4.w EXCEPT !.unregisterCommandDisposable[i] = FALSE]
                         ELSE logError(d4.w, i, ERR_DISPOSE_UNREGISTER)
                  ELSE w3
      IN updateStatusBar(w4, i, f)

\* A variant without the defensive check of lines 331-336.
internalUnregisterNoCheck(w, i, extensionId, f) ==
  LET w1 == [w EXCEPT !.activeExtensions[i] = @ \ {extensionId}]
      empty == w1.activeExtensions[i] = {}
      d2 == disposeCommand(w1, i, SHOW_MENU_CMD, f)
      w2 == IF empty /\ w1.commandDisposable[i]
              THEN IF d2.ok
                     THEN [d2.w EXCEPT !.commandDisposable[i] = FALSE]
                     ELSE logError(d2.w, i, ERR_DISPOSE_SHOW_MENU)
              ELSE w1
      d3 == disposeCommand(w2, i, REGISTER_CMD, f)
      w3 == IF empty /\ w2.registerCommandDisposable[i]
              THEN IF d3.ok
                     THEN [d3.w EXCEPT !.registerCommandDisposable[i] = FALSE]
                     ELSE logError(d3.w, i, ERR_DISPOSE_REGISTER)
              ELSE w2
      d4 == disposeCommand(w3, i, UNREGISTER_CMD, f)
      w4 == IF empty /\ w3.unregisterCommandDisposable[i]
              THEN IF d4.ok
                     THEN [d4.w EXCEPT !.unregisterCommandDisposable[i] = FALSE]
                     ELSE logError(d4.w, i, ERR_DISPOSE_UNREGISTER)
              ELSE w3
  IN updateStatusBar(w4, i, f)

internalUnregister(w, i, extensionId, f) ==
  IF extensionId \notin w.activeExtensions[i]
    THEN w
    ELSE
      LET w1 == [w EXCEPT !.activeExtensions[i] = @ \ {extensionId}]
          empty == w1.activeExtensions[i] = {}
          d2 == disposeCommand(w1, i, SHOW_MENU_CMD, f)
          w2 == IF empty /\ w1.commandDisposable[i]
                  THEN IF d2.ok
                         THEN [d2.w EXCEPT !.commandDisposable[i] = FALSE]
                         ELSE logError(d2.w, i, ERR_DISPOSE_SHOW_MENU)
                  ELSE w1
          d3 == disposeCommand(w2, i, REGISTER_CMD, f)
          w3 == IF empty /\ w2.registerCommandDisposable[i]
                  THEN IF d3.ok
                         THEN [d3.w EXCEPT !.registerCommandDisposable[i] = FALSE]
                         ELSE logError(d3.w, i, ERR_DISPOSE_REGISTER)
                  ELSE w2
          d4 == disposeCommand(w3, i, UNREGISTER_CMD, f)
          w4 == IF empty /\ w3.unregisterCommandDisposable[i]
                  THEN IF d4.ok
                         THEN [d4.w EXCEPT !.unregisterCommandDisposable[i] = FALSE]
                         ELSE logError(d4.w, i, ERR_DISPOSE_UNREGISTER)
                  ELSE w3
      IN updateStatusBar(w4, i, f)

\* vscode.commands.executeCommand(name, id): rejects when no command of that
\* name is registered, otherwise runs the handler its owner registered
\* (lines 211-214 and 238-241).
executeCommand(w, i, name, extensionId, f) ==
  LET owner == w.commands[name]
  IN IF owner = NoOwner
       THEN [ok |-> FALSE, why |-> "not-found",
             w |-> called(w, i, "executeCommand", name, FALSE)]
       ELSE IF Fault("handler", name) \in f
         THEN [ok |-> FALSE, why |-> "handler-threw",
               w |-> called(w, i, "executeCommand", name, FALSE)]
         ELSE [ok |-> TRUE, why |-> "none",
               w |-> LET wc == called(w, i, "executeCommand", name, TRUE)
                     IN IF name = REGISTER_CMD
                          THEN internalRegister(wc, owner, extensionId, f)
                          ELSE internalUnregister(wc, owner, extensionId, f)]

\* ---------------------------------------------------------- showMenuCommand
\* showMenuCommand, lines 389-401: the handler of mcp-acs.showMenu of
\* instance i.  The quick pick is given Array.from(activeExtensions); a
\* failure of the quick pick is logged and answered with an error message.
showMenuCommandUncaught(w, i, f) ==
  LET ok == F_QUICK_PICK \notin f
      w1 == [called(w, i, "showQuickPick", "", ok)
               EXCEPT !.calls[Len(w.calls) + 1].items = w.activeExtensions[i]]
  IN IF ok THEN w1 ELSE [w1 EXCEPT !.thrown = TRUE]

showMenuCommand(w, i, f) ==
  LET ok == F_QUICK_PICK \notin f
      w1 == [called(w, i, "showQuickPick", "", ok)
               EXCEPT !.calls[Len(w.calls) + 1].items = w.activeExtensions[i]]
  IN IF ok
       THEN w1
       ELSE called(logError(w1, i, ERR_QUICK_PICK), i, "showErrorMessage", "", TRUE)

\* getDiagnosticInfo, lines 717-727, of instance i.  registeredExtensions is
\* Array.from(activeExtensions): the members of the Set.
getDiagnosticInfoDerived(w, i) ==
  [activeExtensionCount |-> Cardinality(w.activeExtensions[i]),
   registeredExtensions |-> w.activeExtensions[i],
   statusBarExists |-> w.statusBarItem[i] # Undefined,
   statusBarVisible |-> w.statusBarItem[i] # Undefined /\ Cardinality(w.activeExtensions[i]) > 0,
   commandRegistered |-> Cardinality(w.activeExtensions[i]) > 0,
   registerCommandRegistered |-> w.registerCommandDisposable[i],
   lastError |-> w.lastError[i]]

getDiagnosticInfo(w, i) ==
  [activeExtensionCount |-> Cardinality(w.activeExtensions[i]),
   registeredExtensions |-> w.activeExtensions[i],
   statusBarExists |-> w.statusBarItem[i] # Undefined,
   statusBarVisible |-> w.statusBarItem[i] # Undefined /\ Cardinality(w.activeExtensions[i]) > 0,
   commandRegistered |-> w.commandDisposable[i],
   registerCommandRegistered |-> w.registerCommandDisposable[i],
   lastError |-> w.lastError[i]]

\* ------------------------------------------------------- setOutputChannel
\* A variant without the guard of lines 135-138: the last channel wins.
setOutputChannelLastWins(w, i, channel, f) ==
  LET w1 == [w EXCEPT !.outputChannel[i] = channel]
      rc == registerCommand(w1, i, DIAGNOSTICS_CMD, f)
  IN IF ~w1.diagnosticCommandDisposable[i]
       THEN IF rc.ok
              THEN [rc.w EXCEPT !.diagnosticCommandDisposable[i] = TRUE]
              ELSE logError(rc.w, i, ERR_DIAGNOSTICS)
       ELSE w1

setOutputChannel(w, i, channel, f) ==
  IF w.outputChannel[i] # NoChannel
    THEN w
    ELSE LET w1 == [w EXCEPT !.outputChannel[i] = channel]
             rc == registerCommand(w1, i, DIAGNOSTICS_CMD, f)
         IN IF ~w1.diagnosticCommandDisposable[i]
              THEN IF rc.ok
                     THEN [rc.w EXCEPT !.diagnosticCommandDisposable[i] = TRUE]
                     ELSE logError(rc.w, i, ERR_DIAGNOSTICS)
              ELSE w1

\* ---------------------------------------------------------------- dispose
\* statusBarItem.dispose() of instance i.
disposeItem(w, i, f) ==
  IF F_DISPOSE_ITEM \in f
    THEN [ok |-> FALSE, w |-> called(w, i, "dispose", "statusBarItem", FALSE)]
    ELSE [ok |-> TRUE, w |-> called(w, i, "dispose", "statusBarItem", TRUE)]

\* A variant with one try block around the three disposals: the first
\* failure skips the disposals that follow.
disposeOneTry(w, i, f) ==
  LET s1 == IF w.commandDisposable[i]
              THEN disposeCommand(w, i, SHOW_MENU_CMD, f) ELSE [ok |-> TRUE, w |-> w]
      w1 == [s1.w EXCEPT !.commandDisposable[i] = FALSE]
      s2 == IF w1.diagnosticCommandDisposable[i]
              THEN disposeCommand(w1, i, DIAGNOSTICS_CMD, f) ELSE [ok |-> TRUE, w |-> w1]
      w2 == [s2.w EXCEPT !.diagnosticCommandDisposable[i] = FALSE]
      s3 == IF w2.statusBarItem[i] # Undefined
              THEN disposeItem(w2, i, f) ELSE [ok |-> TRUE, w |-> w2]
      w3 == IF ~s1.ok
              THEN logError(s1.w, i, ERR_DISPOSE_COMMAND)
              ELSE IF ~s2.ok
                THEN logError(s2.w, i, ERR_DISPOSE_DIAGNOSTICS)
                ELSE IF ~s3.ok
                  THEN logError(s3.w, i, ERR_DISPOSE_ITEM)
                  ELSE [s3.w EXCEPT !.statusBarItem[i] = Undefined]
  IN [w3 EXCEPT !.createCalls[i] = 0,
                !.activeExtensions[i] = {},
                !.lastError[i] = NoError,
                !.outputChannel[i] = NoChannel]

\* A variant that leaves out the clearing of the Set (line 629).
disposeKeepExtensions(w, i, f) ==
  LET d1 == disposeCommand(w, i, SHOW_MENU_CMD, f)
      w1 == IF w.commandDisposable[i]
              THEN IF d1.ok
                     THEN [d1.w EXCEPT !.commandDisposable[i] = FALSE]
                     ELSE logError(d1.w, i, ERR_DISPOSE_COMMAND)
              ELSE w
      d2 == disposeCommand(w1, i, DIAGNOSTICS_CMD, f)
      w2 == IF w1.diagnosticCommandDisposable[i]
              THEN IF d2.ok
                     THEN [d2.w EXCEPT !.diagnosticCommandDisposable[i] = FALSE]
                     ELSE logError(d2.w, i, ERR_DISPOSE_DIAGNOSTICS)
              ELSE w1
      d3 == disposeItem(w2, i, f)
      w3 == IF w2.statusBarItem[i] # Undefined
              THEN IF d3.ok
                     THEN [d3.w EXCEPT !.statusBarItem[i] = Undefined]
                     ELSE logError(d3.w, i, ERR_DISPOSE_ITEM)
              ELSE w2
  IN [w3 EXCEPT !.createCalls[i] = 0,
                !.lastError[i] = NoError,
                !.outputChannel[i] = NoChannel]

dispose(w, i, f) ==
  LET d1 == disposeCommand(w, i, SHOW_MENU_CMD, f)
      w1 == IF w.commandDisposable[i]
              THEN IF d1.ok
                     THEN [d1.w EXCEPT !.commandDisposable[i] = FALSE]
                     ELSE logError(d1.w, i, ERR_DISPOSE_COMMAND)
              ELSE w
      d2 == disposeCommand(w1, i, DIAGNOSTICS_CMD, f)
      w2 == IF w1.diagnosticCommandDisposable[i]
              THEN IF d2.ok
                     THEN [d2.w EXCEPT !.diagnosticCommandDisposable[i] = FALSE]
                     ELSE logError(d2.w, i, ERR_DISPOSE_DIAGNOSTICS)
              ELSE w1
      d3 == disposeItem(w2, i, f)
      w3 == IF w2.statusBarItem[i] # Undefined
              THEN IF d3.ok
                     THEN [d3.w EXCEPT !.statusBarItem[i] = Undefined]
                     ELSE logError(d3.w, i, ERR_DISPOSE_ITEM)
              ELSE w2
  IN [w3 EXCEPT !.createCalls[i] = 0,
                !.activeExtensions[i] = {},
                !.lastError[i] = NoError,
                !.outputChannel[i] = NoChannel]

\* ------------------------------------------------------ registerExtension
\* Lines 233-250: register the unregistration command so others can
\* unregister with us.
registerUnregisterCommand(w, i, f) ==
  IF ~w.unregisterCommandDisposable[i]
    THEN LET rc == registerCommand(w, i, UNREGISTER_CMD, f)
         IN IF rc.ok
              THEN [rc.w EXCEPT !.unregisterCommandDisposable[i] = TRUE]
              ELSE logError(rc.w, i, ERR_UNREGISTER)
    ELSE w

\* A variant that leaves out the registration of the unregistration command.
becomeOwnerNoUnregister(w, i, extensionId, f) ==
  LET w1 == internalRegister(w, i, extensionId, f)
      rc == registerCommand(w1, i, REGISTER_CMD, f)
  IN IF w1.registerCommandDisposable[i]
       THEN [retry |-> FALSE, ok |-> FALSE, w |-> w1]
       ELSE IF rc.ok
         THEN [retry |-> FALSE, ok |-> FALSE,
               w |-> [rc.w EXCEPT !.registerCommandDisposable[i] = TRUE]]
         ELSE LET ex == executeCommand(logError(rc.w, i, ERR_REGISTER), i,
                                       REGISTER_CMD, extensionId, f)
              IN [retry |-> TRUE, ok |-> ex.ok, w |-> ex.w]

\* A variant that registers locally only once the registration command is
\* registered: an instance that loses the election has nothing local.
becomeOwnerRegisterLast(w, i, extensionId, f) ==
  LET rc == registerCommand(w, i, REGISTER_CMD, f)
  IN IF w.registerCommandDisposable[i]
       THEN [retry |-> FALSE, ok |-> FALSE,
             w |-> registerUnregisterCommand(internalRegister(w, i, extensionId, f), i, f)]
       ELSE IF rc.ok
         THEN [retry |-> FALSE, ok |-> FALSE,
               w |-> registerUnregisterCommand(
                       internalRegister([rc.w EXCEPT !.registerCommandDisposable[i] = TRUE],
                                        i, extensionId, f), i, f)]
         ELSE LET ex == executeCommand(logError(rc.w, i, ERR_REGISTER), i,
                                       REGISTER_CMD, extensionId, f)
              IN [retry |-> TRUE, ok |-> ex.ok, w |-> ex.w]

\* A variant without the retry of lines 221-228: a failed registration of
\* the registration command is logged and nothing more.
becomeOwnerNoRetry(w, i, extensionId, f) ==
  LET w1 == internalRegister(w, i, extensionId, f)
      rc == registerCommand(w1, i, REGISTER_CMD, f)
  IN IF w1.registerCommandDisposable[i]
       THEN [retry |-> FALSE, ok |-> FALSE, w |-> registerUnregisterCommand(w1, i, f)]
       ELSE IF rc.ok
         THEN [retry |-> FALSE, ok |-> FALSE,
               w |-> registerUnregisterCommand(
                       [rc.w EXCEPT !.registerCommandDisposable[i] = TRUE], i, f)]
         ELSE [retry |-> FALSE, ok |-> FALSE,
               w |-> registerUnregisterCommand(logError(rc.w, i, ERR_REGISTER), i, f)]

\* Lines 203-231: the body after the first executeCommand was rejected, up
\* to the end of the function or to the await of the retry (retry = TRUE,
\* ok = the outcome of the retried executeCommand).
becomeOwner(w, i, extensionId, f) ==
  LET w1 == internalRegister(w, i, extensionId, f)
      rc == registerCommand(w1, i, REGISTER_CMD, f)
  IN IF w1.registerCommandDisposable[i]
       THEN [retry |-> FALSE, ok |-> FALSE, w |-> registerUnregisterCommand(w1, i, f)]
       ELSE IF rc.ok
         THEN [retry |-> FALSE, ok |-> FALSE,
               w |-> registerUnregisterCommand(
                       [rc.w EXCEPT !.registerCommandDisposable[i] = TRUE], i, f)]
         ELSE LET ex == executeCommand(logError(rc.w, i, ERR_REGISTER), i,
                                       REGISTER_CMD, extensionId, f)
              IN [retry |-> TRUE, ok |-> ex.ok, w |-> ex.w]

\* ------------------------------------------------------------------ state
Quiet == \A j \in Inst : pending[j] = <<>>

\* The faults a turn may run under: none, or one of those the host of this
\* behaviour raises.
FaultSets == {{}} \cup {{x} : x \in env.faults}

\* The faults the host calls of a registration, of an unregistration and of
\* setOutputChannel can meet, and the fault sets of a turn that makes them.
RegisterFaults ==
  {Fault("registerCommand", n) : n \in {REGISTER_CMD, UNREGISTER_CMD, SHOW_MENU_CMD}}
    \cup {F_CREATE, F_CREATE_UNDEFINED, F_SHOW, Fault("handler", REGISTER_CMD)}
UnregisterFaults ==
  {Fault("dispose", n) : n \in {REGISTER_CMD, UNREGISTER_CMD, SHOW_MENU_CMD}}
    \cup {F_HIDE, F_SHOW, F_CREATE, F_CREATE_UNDEFINED, Fault("handler", UNREGISTER_CMD)}
ChannelFaults == {Fault("registerCommand", DIAGNOSTICS_CMD)}
MenuFaults == {F_QUICK_PICK}
FaultsOf(S) == {f \in FaultSets : f \subseteq S}

\* The faults dispose() may run under: any of its disposals may throw, also
\* several of them.
DisposeFaults ==
  {Fault("dispose", SHOW_MENU_CMD), Fault("dispose", DIAGNOSTICS_CMD), F_DISPOSE_ITEM}
DisposeFaultSets == SUBSET (env.faults \cap DisposeFaults)

\* What a turn was: the call it belongs to (inst, op, id), the part of the
\* body it ran (step), whether the call returned in it, the instances whose
\* internalRegister/internalUnregister it ran (applied), and for a
\* registerExtension whether the id has been put in a registry by the call so
\* far (added) and whether the id was in the caller's registry when the call
\* was issued with nothing in flight (dup).  why tells how the forward of the
\* call ended: "none" (it was taken), "not-found" or "handler-threw".
Turn(i, op, id, step, returned, applied, added, dup) ==
  [inst |-> i, op |-> op, id |-> id, step |-> step, returned |-> returned,
   applied |-> applied, added |-> added, dup |-> dup, why |-> "none"]

NoTurn == Turn(0, "none", "", "none", FALSE, {}, FALSE, FALSE)

Call(op, id, ok, added, dup) ==
  [op |-> op, id |-> id, pc |-> "first", ok |-> ok, added |-> added, dup |-> dup,
   why |-> "none"]

\* A call the environment may issue: by an active instance, with one of its
\* ids, while calls remain.
MayIssue(i, id) ==
  /\ i \in env.active
  /\ budget > 0
  /\ id \in (IF env.scenario THEN {OwnId(i)} ELSE env.ids) \cup {""}

Issue(i, op, id) ==
  /\ budget' = budget - 1
  /\ trace' = IF env.scenario /\ op \notin {"setOutputChannel", "showMenu"}
                THEN Append(trace, [inst |-> i, op |-> op, id |-> id, quiet |-> Quiet])
                ELSE trace
  /\ overlapped' = (overlapped \/ pending[i] # <<>>)
  /\ UNCHANGED env

Resume ==
  UNCHANGED <<env, budget, trace, refSet, overlapped>>

RemoveAt(s, k) == SubSeq(s, 1, k - 1) \o SubSeq(s, k + 1, Len(s))

InitProgram ==
  /\ activeExtensions = [i \in Inst |-> {}]
  /\ statusBarItem = [i \in Inst |-> Undefined]
  /\ commandDisposable = [i \in Inst |-> FALSE]
  /\ registerCommandDisposable = [i \in Inst |-> FALSE]
  /\ unregisterCommandDisposable = [i \in Inst |-> FALSE]
  /\ lastError = [i \in Inst |-> NoError]
  /\ diagnosticCommandDisposable = [i \in Inst |-> FALSE]
  /\ outputChannel = [i \in Inst |-> NoChannel]
  /\ commands = [n \in CommandNames |-> NoOwner]
  /\ createCalls = [i \in Inst |-> 0]
  /\ pending = [i \in Inst |-> <<>>]
  /\ trace = <<>>
  /\ refSet = {}
  /\ overlapped = FALSE
  /\ turn = NoTurn
  /\ hostCalls = <<>>
  /\ uncaught = FALSE

Init ==
  /\ InitProgram
  /\ env = [active |-> Inst, faults |-> {}, scenario |-> FALSE, ids |-> SharedIds,
            channels |-> {"channel-1"}, pending |-> MaxPending]
  /\ budget = MaxCalls

\* One instance alone in the host; the host may refuse the registration
\* command (the catch of lines 217-229).
InitSolo ==
  /\ InitProgram
  /\ env = [active |-> {1}, faults |-> {Fault("registerCommand", REGISTER_CMD)},
            scenario |-> FALSE, ids |-> Ids, channels |-> Channels,
            pending |-> MaxPending]
  /\ budget = MaxSoloCalls

InitFaults ==
  /\ InitProgram
  /\ env = [active |-> {1, 2}, faults |-> HostFaults, scenario |-> FALSE, ids |-> SharedIds,
            channels |-> {"channel-1"}, pending |-> MaxPending]
  /\ budget = MaxFaultCalls

InitScenario ==
  /\ InitProgram
  /\ env = [active |-> Inst, faults |-> {}, scenario |-> TRUE, ids |-> {},
            channels |-> {"channel-1"}, pending |-> MaxPending]
  /\ budget = MaxScenarioCalls

\* Two instances whose relay handlers may throw.
InitHandlerFaults ==
  /\ InitProgram
  /\ env = [active |-> {1, 2}, faults |-> HandlerFaults, scenario |-> FALSE,
            ids |-> SharedIds, channels |-> {"channel-1"}, pending |-> MaxPending]
  /\ budget = MaxFaultCalls

\* One instance alone whose caller does not await its calls: a call may be
\* issued while the one before is in flight.
InitUnawaited ==
  /\ InitProgram
  /\ env = [active |-> {1}, faults |-> {Fault("registerCommand", REGISTER_CMD)},
            scenario |-> FALSE, ids |-> SharedIds, channels |-> {"channel-1"},
            pending |-> MaxPending + 1]
  /\ budget = MaxCalls

\* registerExtension(id), lines 185-193: the call up to its first await.
RegisterCall(i, id) ==
  /\ MayIssue(i, id)
  /\ Len(pending[i]) < env.pending
  /\ \E f \in FaultsOf(RegisterFaults) :
      \E ex \in {executeCommand(World, i, REGISTER_CMD, id, f)} :
       LET owner == commands[REGISTER_CMD]
           added == ex.ok /\ id \in ex.w.activeExtensions[owner]
           dup == Quiet /\ id \in activeExtensions[i]
       IN /\ Install(ex.w)
          /\ pending' = [pending EXCEPT ![i] =
               Append(@, [Call("register", id, ex.ok, added, dup) EXCEPT !.why = ex.why])]
          /\ turn' = [Turn(i, "register", id, "call", FALSE,
                           IF ex.ok THEN {owner} ELSE {}, added, dup)
                        EXCEPT !.why = ex.why]
  /\ Issue(i, "register", id)
  /\ refSet' = refSet \cup {id}

\* A variant without the return of line 195: the caller registers locally
\* although the owner took the registration.
RegisterResumeNoReturn(i, k) ==
  /\ k \in 1..Len(pending[i])
  /\ pending[i][k].op = "register"
  /\ pending[i][k].pc = "first"
  /\ LET c == pending[i][k]
     IN \E f \in FaultsOf(RegisterFaults) :
          \E r \in {becomeOwner(World, i, c.id, f)} :
            /\ Install(r.w)
            /\ pending' = [pending EXCEPT ![i] =
                 IF r.retry
                   THEN [@ EXCEPT ![k].pc = "retry", ![k].ok = r.ok, ![k].added = TRUE]
                   ELSE RemoveAt(@, k)]
            /\ turn' = Turn(i, "register", c.id, "resume", ~r.retry, {i}, TRUE, c.dup)
  /\ Resume

\* A variant whose catch of lines 196-201 takes a missing command only: the
\* failure of the owner's handler ends the call.
RegisterResumeRethrow(i, k) ==
  /\ k \in 1..Len(pending[i])
  /\ pending[i][k].op = "register"
  /\ pending[i][k].pc = "first"
  /\ LET c == pending[i][k]
     IN IF c.ok \/ c.why = "handler-threw"
          THEN /\ pending' = [pending EXCEPT ![i] = RemoveAt(@, k)]
               /\ turn' = [Turn(i, "register", c.id, "resume", TRUE, {}, c.added, c.dup)
                             EXCEPT !.why = c.why]
               /\ Idle
          ELSE \E f \in FaultsOf(RegisterFaults) :
                \E r \in {becomeOwner(World, i, c.id, f)} :
                  /\ Install(r.w)
                  /\ pending' = [pending EXCEPT ![i] =
                       IF r.retry
                         THEN [@ EXCEPT ![k].pc = "retry", ![k].ok = r.ok, ![k].added = TRUE]
                         ELSE RemoveAt(@, k)]
                  /\ turn' = [Turn(i, "register", c.id, "resume", ~r.retry, {i}, TRUE, c.dup)
                                EXCEPT !.why = c.why]
  /\ Resume

\* registerExtension(id), lines 194-231: the turn after the first await.
RegisterResume(i, k) ==
  /\ k \in 1..Len(pending[i])
  /\ pending[i][k].op = "register"
  /\ pending[i][k].pc = "first"
  /\ LET c == pending[i][k]
     IN IF c.ok
          THEN /\ pending' = [pending EXCEPT ![i] = RemoveAt(@, k)]
               /\ turn' = Turn(i, "register", c.id, "resume", TRUE, {}, c.added, c.dup)
               /\ Idle
          ELSE \E f \in FaultsOf(RegisterFaults) :
                \E r \in {becomeOwner(World, i, c.id, f)} :
                 LET owner == commands[REGISTER_CMD]
                     forwarded == r.retry /\ r.ok
                     added == \/ c.id \in r.w.activeExtensions[i]
                              \/ forwarded /\ c.id \in r.w.activeExtensions[owner]
                 IN /\ Install(r.w)
                    /\ pending' = [pending EXCEPT ![i] =
                         IF r.retry
                           THEN [@ EXCEPT ![k].pc = "retry", ![k].ok = r.ok,
                                          ![k].added = added]
                           ELSE RemoveAt(@, k)]
                    /\ turn' = [Turn(i, "register", c.id, "resume", ~r.retry,
                                     {i} \cup (IF forwarded THEN {owner} ELSE {}),
                                     added, c.dup)
                                  EXCEPT !.why = c.why]
  /\ Resume

\* A variant that repeats the retry of lines 221-228 until it is taken.
RegisterRetryResumeAgain(i, k) ==
  /\ k \in 1..Len(pending[i])
  /\ pending[i][k].op = "register"
  /\ pending[i][k].pc = "retry"
  /\ IF pending[i][k].ok
       THEN /\ Idle
            /\ pending' = [pending EXCEPT ![i] = RemoveAt(@, k)]
            /\ turn' = Turn(i, "register", pending[i][k].id, "retry", TRUE, {},
                            pending[i][k].added, pending[i][k].dup)
       ELSE \E f \in FaultsOf(RegisterFaults) :
              \E ex \in {executeCommand(World, i, REGISTER_CMD, pending[i][k].id, f)} :
                /\ Install(ex.w)
                /\ pending' = [pending EXCEPT ![i][k].ok = ex.ok]
                /\ turn' = Turn(i, "register", pending[i][k].id, "retry-failed", FALSE, {},
                                pending[i][k].added, pending[i][k].dup)
  /\ Resume

\* registerExtension(id), lines 226-250: the turn after the await of the retry.
RegisterRetryResume(i, k) ==
  /\ k \in 1..Len(pending[i])
  /\ pending[i][k].op = "register"
  /\ pending[i][k].pc = "retry"
  /\ IF pending[i][k].ok
       THEN Idle
       ELSE \E f \in FaultsOf(RegisterFaults) :
              \E w \in {registerUnregisterCommand(World, i, f)} : Install(w)
  /\ pending' = [pending EXCEPT ![i] = RemoveAt(@, k)]
  /\ turn' = Turn(i, "register", pending[i][k].id,
                  IF pending[i][k].ok THEN "retry" ELSE "retry-failed", TRUE, {},
                  pending[i][k].added, pending[i][k].dup)
  /\ Resume

\* unregisterExtension(id), lines 316-321: the call up to its await.
UnregisterCall(i, id) ==
  /\ MayIssue(i, id)
  /\ Len(pending[i]) < env.pending
  /\ \E f \in FaultsOf(UnregisterFaults) :
      \E ex \in {executeCommand(World, i, UNREGISTER_CMD, id, f)} :
       LET owner == commands[UNREGISTER_CMD]
       IN /\ Install(ex.w)
          /\ pending' = [pending EXCEPT ![i] =
               Append(@, [Call("unregister", id, ex.ok, FALSE, FALSE) EXCEPT !.why = ex.why])]
          /\ turn' = [Turn(i, "unregister", id, "call", FALSE,
                           IF ex.ok THEN {owner} ELSE {}, FALSE, FALSE)
                        EXCEPT !.why = ex.why]
  /\ Issue(i, "unregister", id)
  /\ refSet' = refSet \ {id}

\* A variant whose catch of lines 323-326 is empty: a rejected forward ends
\* the call.
UnregisterResumeNoLocal(i, k) ==
  /\ k \in 1..Len(pending[i])
  /\ pending[i][k].op = "unregister"
  /\ Idle
  /\ pending' = [pending EXCEPT ![i] = RemoveAt(@, k)]
  /\ turn' = [Turn(i, "unregister", pending[i][k].id, "resume", TRUE, {}, FALSE, FALSE)
                EXCEPT !.why = pending[i][k].why]
  /\ Resume

\* unregisterExtension(id), lines 322-327: the turn after the await.
UnregisterResume(i, k) ==
  /\ k \in 1..Len(pending[i])
  /\ pending[i][k].op = "unregister"
  /\ IF pending[i][k].ok
       THEN Idle
       ELSE \E f \in FaultsOf(UnregisterFaults) :
              \E w \in {internalUnregister(World, i, pending[i][k].id, f)} : Install(w)
  /\ pending' = [pending EXCEPT ![i] = RemoveAt(@, k)]
  /\ turn' = [Turn(i, "unregister", pending[i][k].id, "resume", TRUE,
                   IF pending[i][k].ok THEN {} ELSE {i}, FALSE, FALSE)
                EXCEPT !.why = pending[i][k].why]
  /\ Resume

\* dispose(), lines 589-635: synchronous.
Dispose(i) ==
  /\ MayIssue(i, "")
  /\ \E f \in DisposeFaultSets : \E w \in {dispose(World, i, f)} : Install(w)
  /\ Issue(i, "dispose", "")
  /\ refSet' = refSet \ activeExtensions[i]
  /\ turn' = Turn(i, "dispose", "", "sync", TRUE, {}, FALSE, FALSE)
  /\ UNCHANGED pending

\* setOutputChannel(channel), lines 134-156: synchronous.
SetOutputChannel(i, channel) ==
  /\ MayIssue(i, "")
  /\ channel \in env.channels
  /\ \E f \in FaultsOf(ChannelFaults) :
       \E w \in {setOutputChannel(World, i, channel, f)} : Install(w)
  /\ Issue(i, "setOutputChannel", "")
  /\ turn' = Turn(i, "setOutputChannel", channel, "sync", TRUE, {}, FALSE, FALSE)
  /\ UNCHANGED <<pending, refSet>>

\* The user opens the menu: the host runs the handler of mcp-acs.showMenu,
\* showMenuCommand of the instance that registered it (lines 389-401).
ShowMenu(i) ==
  /\ MayIssue(i, "")
  /\ commands[SHOW_MENU_CMD] = i
  /\ \E f \in FaultsOf(MenuFaults) :
       \E w \in {showMenuCommand(World, i, f)} : Install(w)
  /\ Issue(i, "showMenu", "")
  /\ turn' = Turn(i, "showMenu", "", "sync", TRUE, {}, FALSE, FALSE)
  /\ UNCHANGED <<pending, refSet>>

Next ==
  \/ \E i \in Inst, id \in AllIds : RegisterCall(i, id)
  \/ \E i \in Inst, k \in 1..(MaxPending + 1) : RegisterResume(i, k)
  \/ \E i \in Inst, k \in 1..(MaxPending + 1) : RegisterRetryResume(i, k)
  \/ \E i \in Inst, id \in AllIds : UnregisterCall(i, id)
  \/ \E i \in Inst, k \in 1..(MaxPending + 1) : UnregisterResume(i, k)
  \/ \E i \in Inst : Dispose(i)
  \/ \E i \in Inst, channel \in Channels : SetOutputChannel(i, channel)
  \/ \E i \in Inst : ShowMenu(i)

Spec == Init /\ [][Next]_vars

SpecSolo == InitSolo /\ [][Next]_vars

SpecScenario == InitScenario /\ [][Next]_vars

SpecFaults == InitFaults /\ [][Next]_vars

SpecHandlerFaults == InitHandlerFaults /\ [][Next]_vars

SpecUnawaited == InitUnawaited /\ [][Next]_vars

\* Every forward settles: the turn after an await is taken at last.
Settle ==
  \E i \in Inst, k \in 1..(MaxPending + 1) :
    RegisterResume(i, k) \/ RegisterRetryResume(i, k) \/ UnregisterResume(i, k)

\* Two instances registering one id, relay handlers that may throw.
InitSettling ==
  /\ InitProgram
  /\ env = [active |-> {1, 2}, faults |-> HandlerFaults, scenario |-> FALSE,
            ids |-> {"x-a"}, channels |-> {"channel-1"}, pending |-> MaxPending]
  /\ budget = MaxPending + 1

SpecSettling == InitSettling /\ [][Next]_vars /\ WF_vars(Settle)

\* ------------------------------------------- the deferred variant
\* The earlier version of the module (unnamed/part_000 lines 1-41 with
\* setTimeout, lines 43-86 with Promise.resolve().then, unnamed/part_001
\* lines 137-175 with setImmediate): one instance, no commands, no try
\* blocks; registerExtension and unregisterExtension change the registry and
\* schedule updateStatusBar for a later turn.  The scheduled updates are the
\* entries of pending, all alike.
DEFERRED_TEXT == "$(layers) MCP"

ScheduledUpdate == Call("updateStatusBar", "", TRUE, FALSE, FALSE)

\* A variant of the deferred updateStatusBar that returns at once when the
\* registry is empty, without hide().
deferredUpdateStatusBarNoHide(w, i) ==
  IF w.activeExtensions[i] = {}
    THEN w
    ELSE LET w1 == IF w.statusBarItem[i] = Undefined
                     THEN [called(w, i, "createStatusBarItem", "", TRUE) EXCEPT
                             !.createCalls[i] = @ + 1,
                             !.statusBarItem[i] =
                                [oid |-> w.createCalls[i] + 1, text |-> "", tooltip |-> 0,
                                 command |-> SHOW_MENU_CMD, visible |-> FALSE]]
                     ELSE w
         IN [called(w1, i, "show", "", TRUE) EXCEPT
               !.statusBarItem[i].text = DEFERRED_TEXT,
               !.statusBarItem[i].tooltip = Cardinality(w.activeExtensions[i]),
               !.statusBarItem[i].visible = TRUE]

\* updateStatusBar of the deferred variant (part_000 lines 17-35).
deferredUpdateStatusBar(w, i) ==
  IF w.activeExtensions[i] = {}
    THEN IF w.statusBarItem[i] # Undefined
           THEN [called(w, i, "hide", "", TRUE) EXCEPT !.statusBarItem[i].visible = FALSE]
           ELSE w
    ELSE LET w1 == IF w.statusBarItem[i] = Undefined
                     THEN [called(w, i, "createStatusBarItem", "", TRUE) EXCEPT
                             !.createCalls[i] = @ + 1,
                             !.statusBarItem[i] =
                                [oid |-> w.createCalls[i] + 1, text |-> "", tooltip |-> 0,
                                 command |-> SHOW_MENU_CMD, visible |-> FALSE]]
                     ELSE w
         IN [called(w1, i, "show", "", TRUE) EXCEPT
               !.statusBarItem[i].text = DEFERRED_TEXT,
               !.statusBarItem[i].tooltip = Cardinality(w.activeExtensions[i]),
               !.statusBarItem[i].visible = TRUE]

\* dispose of the deferred variant (part_000 lines 37-41): the scheduled
\* updates stay scheduled.
deferredDispose(w, i) ==
  LET w1 == IF w.statusBarItem[i] # Undefined
              THEN called(w, i, "dispose", "statusBarItem", TRUE)
              ELSE w
  IN [w1 EXCEPT !.statusBarItem[i] = Undefined,
                !.activeExtensions[i] = {},
                !.createCalls[i] = 0]

\* registerExtension(id) of the deferred variant (part_000 lines 7-10).
DeferredRegister(i, id) ==
  /\ MayIssue(i, id)
  /\ id \in env.ids
  /\ Install([World EXCEPT !.activeExtensions[i] = @ \cup {id}])
  /\ pending' = [pending EXCEPT ![i] = Append(@, ScheduledUpdate)]
  /\ Issue(i, "register", id)
  /\ refSet' = refSet \cup {id}
  /\ turn' = Turn(i, "register", id, "sync", TRUE, {i}, id \notin activeExtensions[i], FALSE)

\* unregisterExtension(id) of the deferred variant (part_000 lines 12-15).
DeferredUnregister(i, id) ==
  /\ MayIssue(i, id)
  /\ id \in env.ids
  /\ Install([World EXCEPT !.activeExtensions[i] = @ \ {id}])
  /\ pending' = [pending EXCEPT ![i] = Append(@, ScheduledUpdate)]
  /\ Issue(i, "unregister", id)
  /\ refSet' = refSet \ {id}
  /\ turn' = Turn(i, "unregister", id, "sync", TRUE, {i}, FALSE, FALSE)

\* The callback of the oldest timer runs: updateStatusBar().
DeferredUpdate(i) ==
  /\ pending[i] # <<>>
  /\ Install(deferredUpdateStatusBar(World, i))
  /\ pending' = [pending EXCEPT ![i] = Tail(@)]
  /\ turn' = Turn(i, "updateStatusBar", "", "resume", TRUE, {i}, FALSE, FALSE)
  /\ Resume

\* dispose() of the deferred variant.
DeferredDispose(i) ==
  /\ MayIssue(i, "")
  /\ Install(deferredDispose(World, i))
  /\ Issue(i, "dispose", "")
  /\ refSet' = {}
  /\ turn' = Turn(i, "dispose", "", "sync", TRUE, {}, FALSE, FALSE)
  /\ UNCHANGED pending

InitDeferred ==
  /\ InitProgram
  /\ env = [active |-> {1}, faults |-> {}, scenario |-> FALSE, ids |-> SharedIds,
            channels |-> {}, pending |-> MaxCalls]
  /\ budget = MaxCalls

NextDeferred ==
  \/ \E i \in Inst, id \in AllIds : DeferredRegister(i, id)
  \/ \E i \in Inst, id \in AllIds : DeferredUnregister(i, id)
  \/ \E i \in Inst : DeferredUpdate(i)
  \/ \E i \in Inst : DeferredDispose(i)

SpecDeferred == InitDeferred /\ [][NextDeferred]_vars

\* Two instances, each calling with its own id, with calls enough for both
\* to register and to unregister.
InitRoundTrip ==
  /\ InitProgram
  /\ env = [active |-> {1, 2}, faults |-> {}, scenario |-> TRUE, ids |-> {},
            channels |-> {"channel-1"}, pending |-> MaxPending]
  /\ budget = MaxCalls

SpecRoundTrip == InitRoundTrip /\ [][Next]_vars

\* ------------------------------------------------------------------ claims
\* The ids held, counted once for every registry that holds them.
Held == {p \in Inst \X AllIds : p[2] \in activeExtensions[p[1]]}
RegistryCardinality == Cardinality(Held)

\* The status bar items that exist in the host.
Indicators == {i \in Inst : statusBarItem[i] # Undefined}

\* The instances that hold a relay command, and those that hold the pair.
Holders == {i \in Inst : \/ registerCommandDisposable[i]
                         \/ unregisterCommandDisposable[i]
                         \/ commands[REGISTER_CMD] = i
                         \/ commands[UNREGISTER_CMD] = i}
PairHolders == {i \in Inst : /\ registerCommandDisposable[i]
                             /\ unregisterCommandDisposable[i]
                             /\ commands[REGISTER_CMD] = i
                             /\ commands[UNREGISTER_CMD] = i}

\* SpecScenario: no dispose() among the calls issued.
NoDispose == \A k \in 1..Len(trace) : trace[k].op # "dispose"

\* SpecScenario: the calls issued are first registerExtension calls, one per instance.
FirstRegistrations ==
  /\ trace # <<>>
  /\ \A k \in 1..Len(trace) : trace[k].op = "register"
  /\ \A k1, k2 \in 1..Len(trace) : k1 # k2 => trace[k1].inst # trace[k2].inst

\* C1 (SpecScenario): for any interleaving of registerExtension and
\* unregisterExtension calls of the instances, once all calls have completed
\* the number of ids held, summed over the registries of all instances,
\* equals the number of distinct ids registered and not unregistered since.
C1_FinalCardinality ==
  (Quiet /\ NoDispose) => RegistryCardinality = Cardinality(refSet)

\* C2 (SpecScenario): in every state reached by registerExtension and
\* unregisterExtension calls of the instances, at most one status bar item
\* exists in the host.
C2_AtMostOneIndicator ==
  NoDispose => Cardinality(Indicators) <= 1

\* C3 (SpecScenario): when the instances make their first registerExtension
\* calls on a bus without owner, in any interleaving, at most one instance
\* registers a relay command, that instance registers both, and once the
\* calls have completed exactly one instance holds the pair.
C3_OneRelayPair ==
  FirstRegistrations =>
    /\ Cardinality(Holders) <= 1
    /\ Holders = PairHolders
    /\ Quiet => Cardinality(PairHolders) = 1

\* C3 witness: two first calls raced, the loser found the name taken, and
\* all calls have completed.
C3_Witness ==
  /\ FirstRegistrations
  /\ Quiet
  /\ \E k \in 2..Len(trace) : ~trace[k].quiet
  /\ \E i \in Inst : lastError[i] = ERR_REGISTER
  /\ Cardinality(PairHolders) = 1

\* SpecScenario: instance trace[1].inst completed registerExtension first, two
\* other instances then called registerExtension, each with its own id.
C4_Scenario ==
  /\ Len(trace) = 3
  /\ FirstRegistrations
  /\ trace[2].quiet

\* C4 (SpecScenario): when A completes registerExtension("x-a") first and B
\* and C then call registerExtension with their ids, B and C are served
\* through the relay (their registries stay empty, they create no status bar
\* item and register no command) and once the calls have completed A is the
\* owner, with the three ids in its registry.
C4_ServedThroughRelay ==
  C4_Scenario =>
    LET a == trace[1].inst
        b == trace[2].inst
        c == trace[3].inst
    IN /\ \A j \in {b, c} :
            /\ activeExtensions[j] = {}
            /\ statusBarItem[j] = Undefined
            /\ createCalls[j] = 0
            /\ ~commandDisposable[j]
            /\ ~registerCommandDisposable[j]
            /\ ~unregisterCommandDisposable[j]
       /\ PairHolders = {a}
       /\ Holders = {a}
       /\ Indicators = {a}
       /\ Quiet =>
            /\ activeExtensions[a] = {OwnId(a), OwnId(b), OwnId(c)}
            /\ Cardinality(activeExtensions[a]) = 3
            /\ statusBarItem[a].tooltip = 3

\* C4 witness: the scenario has completed, C having called while B's call was
\* in flight.
C4_Witness ==
  /\ C4_Scenario
  /\ Quiet
  /\ ~trace[3].quiet
  /\ Cardinality(activeExtensions[trace[1].inst]) = 3

\* C5 (SpecFaults): when a registerExtension(id) call returns, the call has
\* put id in the registry of an instance (the owner's or the caller's own),
\* and every registration handler run for the call leaves id in the registry
\* of its instance.
C5_NoIdDropped ==
  turn.op = "register" =>
    /\ turn.returned => turn.added
    /\ \A h \in turn.applied : turn.id \in activeExtensions[h]

\* C5 witness: a call returns after a lost election followed by a failed
\* retry, its id in the caller's registry.
C5_Witness ==
  /\ turn.op = "register"
  /\ turn.step = "retry-failed"
  /\ turn.returned
  /\ turn.id \in activeExtensions[turn.inst]
  /\ ~registerCommandDisposable[turn.inst]

\* C6 as claimed (Spec): an instance that holds the relay commands keeps
\* them in every turn of registerExtension and unregisterExtension, also in
\* the turn that empties its registry.
C6_StickyOwnership ==
  [][\A i \in Inst :
       (i \in PairHolders /\ turn'.op # "dispose") => (i \in PairHolders')]_vars

\* C6 as amended (Spec): the unregistration that empties the registry of an
\* instance releases the relay commands and the show-menu command the
\* instance holds and hides its status bar item, which it keeps; nothing
\* else releases a relay command.
C6_ReleasedWhenEmpty ==
  [][\A i \in Inst :
       /\ (turn'.op = "unregister" /\ i \in turn'.applied
             /\ activeExtensions[i] # {} /\ activeExtensions'[i] = {})
            => /\ i \notin Holders'
               /\ ~commandDisposable'[i]
               /\ commands'[SHOW_MENU_CMD] # i
               /\ statusBarItem[i] # Undefined =>
                    /\ statusBarItem'[i] # Undefined
                    /\ statusBarItem'[i].oid = statusBarItem[i].oid
                    /\ ~statusBarItem'[i].visible
       /\ (\/ registerCommandDisposable[i] /\ ~registerCommandDisposable'[i]
           \/ unregisterCommandDisposable[i] /\ ~unregisterCommandDisposable'[i]
           \/ commands[REGISTER_CMD] = i /\ commands'[REGISTER_CMD] # i
           \/ commands[UNREGISTER_CMD] = i /\ commands'[UNREGISTER_CMD] # i)
            => /\ turn'.op = "unregister"
               /\ i \in turn'.applied
               /\ activeExtensions[i] # {}
               /\ activeExtensions'[i] = {}]_vars

\* C6 witness: the owner's registry was emptied by an unregistration; its
\* status bar item is hidden and the relay commands are free.
C6_Witness ==
  /\ turn.op = "unregister"
  /\ \E i \in turn.applied :
       /\ activeExtensions[i] = {}
       /\ statusBarItem[i] # Undefined
       /\ ~statusBarItem[i].visible
  /\ commands[REGISTER_CMD] = NoOwner
  /\ commands[UNREGISTER_CMD] = NoOwner

\* C7 (Spec): after dispose() returns, the instance holds neither relay
\* command: mcp-acs.registerExtension and mcp-acs.unregisterExtension are not
\* registered by it.
C7_DisposeReleasesRelay ==
  turn.op = "dispose" => turn.inst \notin Holders

\* C8 (SpecScenario): the owner registers its id and calls dispose(); a
\* registerExtension by another instance then finds no relay command,
\* promotes the caller to owner, and ends with the caller's id in the caller's
\* registry, with cardinality 1.
C8_SelfPromotionAfterDispose ==
  (/\ Len(trace) = 3
   /\ Quiet
   /\ trace[1].op = "register"
   /\ trace[2].op = "dispose" /\ trace[2].inst = trace[1].inst /\ trace[2].quiet
   /\ trace[3].op = "register" /\ trace[3].inst # trace[1].inst /\ trace[3].quiet)
    => /\ activeExtensions[trace[3].inst] = {trace[3].id}
       /\ RegistryCardinality = 1
       /\ PairHolders = {trace[3].inst}

\* C9 (SpecSolo): for a single instance whose calls are awaited, after every
\* operation the registry equals the reference set obtained by applying
\* add/remove in the order of the calls, so that the count is the size of
\* that set: up by one for an absent id, down by one for a present id.
C9_RegistryIsReference ==
  (Quiet /\ ~overlapped) =>
    /\ activeExtensions[1] = refSet
    /\ Cardinality(activeExtensions[1]) = Cardinality(refSet)

\* C9 witness: an unregistration has left two of three ids registered.
C9_Witness ==
  /\ Quiet
  /\ ~overlapped
  /\ turn.op = "unregister"
  /\ turn.returned
  /\ Cardinality(activeExtensions[1]) = 2
  /\ turn.id \notin activeExtensions[1]

\* C10 (SpecSolo): registerExtension(id) with id already registered by the
\* instance changes neither the registry, the status bar item, the show-menu
\* command registration nor the number of createStatusBarItem calls, in
\* any of its turns; createStatusBarItem is called at most once.
C10_RegistrationIdempotent ==
  /\ [][(turn'.op = "register" /\ turn'.dup /\ ~overlapped')
          => /\ activeExtensions' = activeExtensions
             /\ statusBarItem' = statusBarItem
             /\ commandDisposable' = commandDisposable
             /\ commands'[SHOW_MENU_CMD] = commands[SHOW_MENU_CMD]
             /\ createCalls' = createCalls]_vars
  /\ [](\A i \in Inst : createCalls[i] <= 1)

\* C10 witness: a repeated registration has returned; the one status bar
\* item is shown for the one id.
C10_Witness ==
  /\ turn.op = "register"
  /\ turn.dup
  /\ turn.returned
  /\ ~overlapped
  /\ activeExtensions[1] = {turn.id}
  /\ statusBarItem[1] # Undefined
  /\ statusBarItem[1].visible
  /\ statusBarItem[1].tooltip = 1
  /\ createCalls[1] = 1
  /\ commandDisposable[1]

\* The host calls of the last turn other than the forwarding executeCommand.
LocalCalls == {k \in 1..Len(hostCalls) : hostCalls[k].call # "executeCommand"}

\* C11 (Spec): a turn of unregisterExtension(id), with id in no registry,
\* raises nothing, makes no host call but the forwarding executeCommand and
\* leaves the registries, the status bar items (existence, visibility,
\* tooltip), the command handles, the host's command table and lastError of
\* all instances unchanged.
C11_UnregisterUnknownIsNoop ==
  [][(/\ turn'.op = "unregister"
      /\ \A j \in Inst : turn'.id \notin activeExtensions[j])
       => /\ ~uncaught'
          /\ \A k \in 1..Len(hostCalls') : hostCalls'[k].call = "executeCommand"
          /\ activeExtensions' = activeExtensions
          /\ statusBarItem' = statusBarItem
          /\ createCalls' = createCalls
          /\ commandDisposable' = commandDisposable
          /\ registerCommandDisposable' = registerCommandDisposable
          /\ unregisterCommandDisposable' = unregisterCommandDisposable
          /\ diagnosticCommandDisposable' = diagnosticCommandDisposable
          /\ commands' = commands
          /\ lastError' = lastError]_vars

\* C11 witness: the owner, its status bar item shown for one id, ran its
\* unregistration handler for an id it does not hold: the forwarding
\* executeCommand is the only host call of the turn.
C11_Witness ==
  /\ turn.op = "unregister"
  /\ turn.step = "call"
  /\ turn.applied = {turn.inst}
  /\ LocalCalls = {}
  /\ Cardinality(activeExtensions[turn.inst]) = 1
  /\ turn.id \notin activeExtensions[turn.inst]
  /\ statusBarItem[turn.inst] # Undefined
  /\ statusBarItem[turn.inst].visible
  /\ statusBarItem[turn.inst].tooltip = 1

\* The names of the calls instance i made on the status bar API in a turn
\* with host calls cs: createStatusBarItem, show, hide, dispose.
ItemCalls(cs, i) ==
  LET sel == SelectSeq(cs, LAMBDA c :
               /\ c.inst = i
               /\ \/ c.call \in {"createStatusBarItem", "show", "hide"}
                  \/ c.call = "dispose" /\ c.arg = "statusBarItem")
  IN [k \in 1..Len(sel) |-> sel[k].call]

\* The calls instance i made on the command API for the name in a turn
\* with host calls cs: registerCommand, dispose.
CommandCalls(cs, i, name) ==
  LET sel == SelectSeq(cs, LAMBDA c :
               /\ c.inst = i
               /\ c.call \in {"registerCommand", "dispose"}
               /\ c.arg = name)
  IN [k \in 1..Len(sel) |-> sel[k].call]

C15_TooltipIsCount ==
  \A i \in Inst :
    activeExtensions[i] # {}
      => /\ statusBarItem[i] # Undefined
         /\ statusBarItem[i].tooltip = Cardinality(activeExtensions[i])

\* C15 witness: an unregistration has left one of two ids registered and
\* the tooltip carries 1.
C15_Witness ==
  /\ turn.op = "unregister"
  /\ \E i \in turn.applied :
       /\ Cardinality(activeExtensions[i]) = 1
       /\ turn.id \notin activeExtensions[i]
       /\ ItemCalls(hostCalls, i) = <<"show">>
       /\ statusBarItem[i].tooltip = 1

FailedCalls(cs) == {k \in 1..Len(cs) : ~cs[k].ok /\ cs[k].call # "executeCommand"}

\* C17 (SpecFaults): a dispose() whose host calls succeed, in any state the
\* instance can reach, leaves the instance with an empty registry, no status
\* bar item, no show-menu handle and a null lastError; a second dispose()
\* right after makes no host call and changes nothing.
C17_DisposeCleansAndIsIdempotent ==
  (turn.op = "dispose" /\ FailedCalls(hostCalls) = {})
    => /\ activeExtensions[turn.inst] = {}
       /\ statusBarItem[turn.inst] = Undefined
       /\ ~commandDisposable[turn.inst]
       /\ lastError[turn.inst] = NoError
       /\ ~uncaught
       /\ \A f \in DisposeFaultSets : dispose(World, turn.inst, f) = World

\* C17 witness: dispose() released the show-menu command, the diagnostics
\* command and the status bar item of the instance.
C17_Witness ==
  /\ turn.op = "dispose"
  /\ FailedCalls(hostCalls) = {}
  /\ CommandCalls(hostCalls, turn.inst, SHOW_MENU_CMD) = <<"dispose">>
  /\ CommandCalls(hostCalls, turn.inst, DIAGNOSTICS_CMD) = <<"dispose">>
  /\ ItemCalls(hostCalls, turn.inst) = <<"dispose">>
  /\ activeExtensions[turn.inst] = {}
  /\ outputChannel[turn.inst] = NoChannel

\* C18 (SpecFaults): whichever host call fails, no exception leaves a turn
\* of registerExtension, unregisterExtension, setOutputChannel or dispose;
\* outside dispose(), which resets it, a failed registration, release or
\* status bar call of an instance leaves a message in the lastError of that
\* instance, and lastError takes a new message only in a turn with such a
\* failed call.
C18_NoFailurePropagates ==
  /\ [](/\ ~uncaught
        /\ turn.op # "dispose"
             => \A k \in FailedCalls(hostCalls) : lastError[hostCalls[k].inst] # NoError)
  /\ [][\A i \in Inst :
          (lastError'[i] # lastError[i] /\ lastError'[i] # NoError)
            => \E k \in FailedCalls(hostCalls') : hostCalls'[k].inst = i]_vars

\* C18 witness: a registerExtension call returned although show() threw in
\* it; the id is registered and lastError holds the message.
C18_Witness ==
  /\ turn.op = "register"
  /\ turn.returned
  /\ ~uncaught
  /\ \E k \in FailedCalls(hostCalls) :
       /\ hostCalls[k].call = "show"
       /\ hostCalls[k].inst = turn.inst
  /\ lastError[turn.inst] = ERR_SHOW
  /\ turn.id \in activeExtensions[turn.inst]

\* C19 (SpecFaults): after dispose() the instance holds no status bar item,
\* also when statusBarItem.dispose() threw.
C19_ItemReferenceCleared ==
  turn.op = "dispose" => statusBarItem[turn.inst] = Undefined

\* C20 (SpecFaults): dispose() calls dispose() on each of the show-menu
\* command, the diagnostics command and the status bar item the instance
\* holds, whichever of these calls throw, and clears the registry.
C20_DisposalsIsolated ==
  [][turn'.op = "dispose"
       => LET i == turn'.inst
          IN /\ commandDisposable[i]
                  => CommandCalls(hostCalls', i, SHOW_MENU_CMD) = <<"dispose">>
             /\ diagnosticCommandDisposable[i]
                  => CommandCalls(hostCalls', i, DIAGNOSTICS_CMD) = <<"dispose">>
             /\ statusBarItem[i] # Undefined
                  => ItemCalls(hostCalls', i) = <<"dispose">>
             /\ activeExtensions'[i] = {}
             /\ ~uncaught']_vars

\* C20 witness: the disposals of the show-menu command and of the
\* diagnostics command threw; the status bar item was disposed and the
\* registry cleared.
C20_Witness ==
  /\ turn.op = "dispose"
  /\ Len(hostCalls) = 3
  /\ ~hostCalls[1].ok
  /\ ~hostCalls[2].ok
  /\ hostCalls[3].ok
  /\ hostCalls[3].arg = "statusBarItem"
  /\ statusBarItem[turn.inst] = Undefined
  /\ activeExtensions[turn.inst] = {}

\* C21: a host failure while the show-menu command is registered or the
\* indicator is created during a registration does not keep the id out of
\* the registry.  After every turn of a registerExtension(id), for every
\* instance whose internalRegister ran in it: id is in its registry; when its
\* registration of mcp-acs.showMenu failed and its createStatusBarItem did not,
\* it holds an indicator; when its createStatusBarItem failed it holds no
\* indicator; and a registration that meets no failure and
\* touches the indicator leaves it shown with the count as tooltip, whatever
\* failed before.
C21_FailureKeepsRegistration ==
  turn.op = "register" =>
    \A h \in turn.applied :
      LET failed == {c \in {hostCalls[k] : k \in FailedCalls(hostCalls)} : c.inst = h}
          failedCommand == \E c \in failed :
                             c.call = "registerCommand" /\ c.arg = SHOW_MENU_CMD
          failedCreate == \E c \in failed : c.call = "createStatusBarItem"
      IN /\ turn.id \in activeExtensions[h]
         /\ (failedCommand /\ ~failedCreate) => statusBarItem[h] # Undefined
         /\ failedCreate => statusBarItem[h] = Undefined
         /\ (failed = {} /\ ItemCalls(hostCalls, h) # <<>>) =>
              /\ statusBarItem[h] # Undefined
              /\ statusBarItem[h].visible
              /\ statusBarItem[h].tooltip = Cardinality(activeExtensions[h])

\* A second registration completed on an instance whose registration of
\* mcp-acs.showMenu had failed: two ids, the indicator shown with tooltip 2,
\* no show-menu handle.
C21_Witness ==
  /\ turn.op = "register"
  /\ turn.applied = {turn.inst}
  /\ FailedCalls(hostCalls) = {}
  /\ Cardinality(activeExtensions[turn.inst]) = 2
  /\ ~commandDisposable[turn.inst]
  /\ lastError[turn.inst] = ERR_SHOW_MENU
  /\ statusBarItem[turn.inst] # Undefined
  /\ statusBarItem[turn.inst].visible
  /\ statusBarItem[turn.inst].tooltip = 2

\* The host calls of the last turn made by the instance of the turn.
CallsOf(call, name) ==
  {k \in 1..Len(hostCalls) :
     /\ hostCalls[k].inst = turn.inst
     /\ hostCalls[k].call = call
     /\ hostCalls[k].arg = name}
FailedCallsOf(call, name) == {k \in CallsOf(call, name) : ~hostCalls[k].ok}

\* C22 as stated: in the turn of a registerExtension that runs the
\* self-promotion, a failed registration of either relay command (register
\* or unregister endpoint) is followed by exactly one retried forward.
C22_RetryOnEitherEndpoint ==
  (/\ turn.op = "register"
   /\ turn.step = "resume"
   /\ \E n \in {REGISTER_CMD, UNREGISTER_CMD} : FailedCallsOf("registerCommand", n) # {})
    => Cardinality(CallsOf("executeCommand", REGISTER_CMD)) = 1

\* C22 amended: the forward is retried, exactly once and after the failure,
\* when the registration of the registration command fails; the turn then
\* ends at the await of the retry without touching the unregistration
\* command.  A failed registration of the unregistration command is logged
\* and not retried, and no other turn after the first forward repeats it.
C22_RetryOnRegisterEndpointOnly ==
  (turn.op = "register" /\ turn.step # "call") =>
    LET retries == CallsOf("executeCommand", REGISTER_CMD)
        refused == FailedCallsOf("registerCommand", REGISTER_CMD)
    IN IF turn.step = "resume" /\ refused # {}
         THEN /\ Cardinality(retries) = 1
              /\ \A r \in refused, k \in retries : r < k
              /\ ~turn.returned
              /\ CallsOf("registerCommand", UNREGISTER_CMD) = {}
         ELSE /\ retries = {}
              /\ FailedCallsOf("registerCommand", UNREGISTER_CMD) # {} =>
                   (turn.returned /\ lastError[turn.inst] = ERR_UNREGISTER)

\* The registration of the unregistration command failed in the turn that
\* registered the registration command: no forward was retried and the call
\* returned.
C22_Witness ==
  /\ turn.op = "register"
  /\ turn.step = "resume"
  /\ turn.returned
  /\ hostCalls # <<>>
  /\ \E k \in CallsOf("registerCommand", REGISTER_CMD) : hostCalls[k].ok
  /\ FailedCallsOf("registerCommand", UNREGISTER_CMD) # {}
  /\ CallsOf("executeCommand", REGISTER_CMD) = {}
  /\ turn.id \in activeExtensions[turn.inst]
  /\ registerCommandDisposable[turn.inst]
  /\ ~unregisterCommandDisposable[turn.inst]

\* C23: a forward that is rejected because the owner's handler threw is
\* treated as a forward that found no command.  Whatever rejected the
\* forward, the turn after it runs the local path: for registerExtension(id)
\* internalRegister of the caller (id is in its registry) and the
\* self-promotion (the registration command is registered by the caller, or
\* its registration was attempted in the turn); for unregisterExtension(id)
\* internalUnregister of the caller (id is not in its registry).
C23_HandlerFailureIsNoEndpoint ==
  (turn.step = "resume" /\ turn.why \in {"not-found", "handler-threw"}) =>
     /\ turn.inst \in turn.applied
     /\ turn.op = "register" =>
          /\ turn.id \in activeExtensions[turn.inst]
          /\ \/ CallsOf("registerCommand", REGISTER_CMD) # {}
             \/ registerCommandDisposable[turn.inst]
     /\ turn.op = "unregister" =>
          /\ turn.applied = {turn.inst}
          /\ turn.id \notin activeExtensions[turn.inst]

\* The handler of another instance threw on a registerExtension: the caller
\* registered the id locally and tried to register the registration command,
\* which the other instance holds.
C23_Witness ==
  /\ turn.op = "register"
  /\ turn.step = "resume"
  /\ turn.why = "handler-threw"
  /\ turn.id \in activeExtensions[turn.inst]
  /\ commands[REGISTER_CMD] \notin {NoOwner, turn.inst}
  /\ FailedCallsOf("registerCommand", REGISTER_CMD) # {}

\* C24 (SpecUnawaited): the calls of one instance take effect in the order
\* they were issued, awaited or not.  In particular no registerExtension(id)
\* is applied by its instance while an unregisterExtension(id) that the
\* instance issued after it, and that the owner has applied already, is
\* still in flight: the registration would come after the unregistration
\* and leave id registered.
C24_IssueOrderPreserved ==
  \A i \in Inst : \A k \in 1..Len(pending[i]) :
    ~(/\ pending[i][k].op = "unregister"
      /\ pending[i][k].ok
      /\ turn.op = "register"
      /\ turn.step = "resume"
      /\ turn.inst = i
      /\ i \in turn.applied
      /\ turn.id = pending[i][k].id
      /\ turn.id \notin refSet
      /\ turn.id \in activeExtensions[i])

\* The messages logError is given when a host call fails outside dispose().
Messages(c) ==
  IF c.call = "registerCommand"
    THEN IF c.arg = SHOW_MENU_CMD THEN {ERR_SHOW_MENU}
         ELSE IF c.arg = REGISTER_CMD THEN {ERR_REGISTER}
         ELSE IF c.arg = UNREGISTER_CMD THEN {ERR_UNREGISTER}
         ELSE {ERR_DIAGNOSTICS}
  ELSE IF c.call = "dispose"
    THEN IF c.arg = SHOW_MENU_CMD THEN {ERR_DISPOSE_SHOW_MENU}
         ELSE IF c.arg = REGISTER_CMD THEN {ERR_DISPOSE_REGISTER}
         ELSE {ERR_DISPOSE_UNREGISTER}
  ELSE IF c.call = "createStatusBarItem" THEN {ERR_CREATE, ERR_CREATE_UNDEFINED}
  ELSE IF c.call = "show" THEN {ERR_SHOW}
  ELSE IF c.call = "hide" THEN {ERR_HIDE}
  ELSE {ERR_QUICK_PICK}

\* C25: getDiagnosticInfo() is computed from the live state.  In every
\* reachable state, for every instance: activeExtensionCount is the size of
\* the registry, registeredExtensions its members, statusBarExists tells
\* whether an indicator reference is held, commandRegistered whether the
\* show-menu handle is held, registerCommandRegistered whether the handle of
\* the registration command is held, and lastError is lastError: after a
\* turn other than dispose() in which a host call of the instance failed, the
\* message logged for the last such call.
C25_DiagnosticsAreLive ==
  \A i \in Inst :
    LET d == getDiagnosticInfo(World, i)
        failed == {k \in FailedCalls(hostCalls) : hostCalls[k].inst = i}
        last == CHOOSE k \in failed : \A j \in failed : j <= k
    IN /\ d.activeExtensionCount = Cardinality(activeExtensions[i])
       /\ d.registeredExtensions = activeExtensions[i]
       /\ d.statusBarExists <=> statusBarItem[i] # Undefined
       /\ d.commandRegistered <=> commandDisposable[i]
       /\ d.registerCommandRegistered <=> registerCommandDisposable[i]
       /\ d.lastError = lastError[i]
       /\ (turn.op # "dispose" /\ failed # {}) => d.lastError \in Messages(hostCalls[last])

\* createStatusBarItem failed for an instance that became owner: the
\* diagnostics show one id, no indicator, both handles and the failure.
C25_Witness ==
  \E i \in Inst :
    LET d == getDiagnosticInfo(World, i)
    IN /\ d.activeExtensionCount = 1
       /\ d.registeredExtensions = {"x-a"}
       /\ ~d.statusBarExists
       /\ ~d.statusBarVisible
       /\ d.commandRegistered
       /\ d.registerCommandRegistered
       /\ d.lastError = ERR_CREATE

C27_SinkInstalledOnce ==
  [][\A i \in Inst :
       outputChannel[i] # NoChannel => outputChannel'[i] = outputChannel[i]]_vars

\* C27 amended: the sink of an instance is kept until the instance's
\* dispose(), which clears it.  A setOutputChannel on an instance with a sink
\* makes no host call and changes nothing; one on an instance without a sink
\* installs the channel it is given and attempts the registration of
\* mcp-acs.diagnostics once if the instance holds no handle of it, not at all
\* if it does; no other turn registers mcp-acs.diagnostics.
C27_SinkKeptUntilDispose ==
  [][\A i \in Inst :
       LET byInst == turn'.inst = i
           attempts == {k \in 1..Len(hostCalls') :
                          /\ hostCalls'[k].inst = i
                          /\ hostCalls'[k].call = "registerCommand"
                          /\ hostCalls'[k].arg = DIAGNOSTICS_CMD}
       IN /\ (outputChannel[i] # NoChannel /\ ~(byInst /\ turn'.op = "dispose")) =>
               outputChannel'[i] = outputChannel[i]
          /\ (byInst /\ turn'.op = "dispose") => outputChannel'[i] = NoChannel
          /\ (byInst /\ turn'.op = "setOutputChannel" /\ outputChannel[i] # NoChannel) =>
               (hostCalls' = <<>> /\ UNCHANGED progVars)
          /\ (byInst /\ turn'.op = "setOutputChannel" /\ outputChannel[i] = NoChannel) =>
               /\ outputChannel'[i] = turn'.id
               /\ Cardinality(attempts) = IF diagnosticCommandDisposable[i] THEN 0 ELSE 1
          /\ ~(byInst /\ turn'.op = "setOutputChannel") => attempts = {}]_vars

\* A second setOutputChannel with another channel: the first channel is
\* still the sink, the diagnostics command is registered, no host call made.
C27_Witness ==
  /\ turn.op = "setOutputChannel"
  /\ turn.id = "channel-2"
  /\ outputChannel[turn.inst] = "channel-1"
  /\ diagnosticCommandDisposable[turn.inst]
  /\ commands[DIAGNOSTICS_CMD] = turn.inst
  /\ hostCalls = <<>>

C29_DuplicateRecomputesNothing ==
  [][\A h \in Inst :
       (/\ turn'.op = "register"
        /\ h \in turn'.applied
        /\ turn'.id \in activeExtensions[h])
         => /\ ItemCalls(hostCalls', h) = <<>>
            /\ statusBarItem'[h] = statusBarItem[h]
            /\ createCalls'[h] = createCalls[h]
            /\ activeExtensions'[h] = activeExtensions[h]]_vars

\* A forwarded registration of an id the owner holds already: the owner made
\* no host call, its item shows the count of its two ids.
C29_Witness ==
  /\ turn.op = "register"
  /\ turn.step = "call"
  /\ \E h \in turn.applied :
       /\ h # turn.inst
       /\ turn.id \in activeExtensions[h]
       /\ Cardinality(activeExtensions[h]) = 2
       /\ statusBarItem[h] # Undefined
       /\ statusBarItem[h].tooltip = 2
  /\ LocalCalls = {}

\* C30: in the fallback path of registerExtension(id) the local registration
\* comes before any attempt to register the registration command.  After a
\* turn in which the caller attempted that registration, id is in the
\* caller's registry, and the host calls of its local registration (show-menu
\* command, createStatusBarItem, show) precede the attempt: an instance that
\* finds the name taken holds its id already.
C30_LocalBeforeEndpoint ==
  turn.op = "register" =>
    \A r \in CallsOf("registerCommand", REGISTER_CMD) :
      /\ turn.id \in activeExtensions[turn.inst]
      /\ turn.inst \in turn.applied
      /\ \A k \in 1..Len(hostCalls) :
           (/\ hostCalls[k].inst = turn.inst
            /\ \/ hostCalls[k].call \in {"createStatusBarItem", "show"}
               \/ hostCalls[k].call = "registerCommand" /\ hostCalls[k].arg = SHOW_MENU_CMD)
             => k < r

\* The loser of the election: its registration of the registration command
\* was refused, another instance holds the command, and the loser holds its
\* id and shows its own item.
C30_Witness ==
  /\ turn.op = "register"
  /\ FailedCallsOf("registerCommand", REGISTER_CMD) # {}
  /\ commands[REGISTER_CMD] \notin {NoOwner, turn.inst}
  /\ activeExtensions[turn.inst] = {turn.id}
  /\ turn.id = OwnId(turn.inst)
  /\ ItemCalls(hostCalls, turn.inst) = <<"createStatusBarItem", "show">>
  /\ ~registerCommandDisposable[turn.inst]

\* The registry, the indicator and the command handles of instance h.
InstanceState(h) ==
  <<activeExtensions[h], statusBarItem[h], commandDisposable[h],
    registerCommandDisposable[h], unregisterCommandDisposable[h]>>

C32_CallsTerminate ==
  /\ [](LET F == Cardinality(CallsOf("executeCommand", REGISTER_CMD))
                  + Cardinality(CallsOf("executeCommand", UNREGISTER_CMD))
            R == Cardinality(CallsOf("registerCommand", REGISTER_CMD))
            U == Cardinality(CallsOf("registerCommand", UNREGISTER_CMD))
        IN /\ (turn.op = "register" /\ turn.step = "call") =>
                (F = 1 /\ R = 0 /\ U = 0 /\ ~turn.returned)
           /\ (turn.op = "register" /\ turn.step = "resume") =>
                /\ R <= 1 /\ U <= 1
                /\ IF turn.returned THEN F = 0 ELSE (F = 1 /\ R = 1 /\ U = 0)
           /\ (turn.op = "register" /\ turn.step \in {"retry", "retry-failed"}) =>
                (F = 0 /\ R = 0 /\ U <= 1 /\ turn.returned)
           /\ (turn.op = "unregister" /\ turn.step = "call") =>
                (F = 1 /\ R = 0 /\ U = 0 /\ ~turn.returned)
           /\ (turn.op = "unregister" /\ turn.step = "resume") =>
                (F = 0 /\ R = 0 /\ U = 0 /\ turn.returned))
  /\ \A i \in Inst : (pending[i] # <<>>) ~> (pending[i] = <<>>)

\* A registerExtension that made its two forwards, both rejected, and its
\* attempt at each relay command has returned.
C32_Witness ==
  /\ turn.op = "register"
  /\ turn.step = "retry-failed"
  /\ turn.returned
  /\ pending[turn.inst] = <<>>
  /\ Cardinality(CallsOf("registerCommand", UNREGISTER_CMD)) = 1
  /\ turn.id \in activeExtensions[turn.inst]

\* C33: an instance that holds both a status bar item and the handle of
\* mcp-acs.showMenu has the item's command bound to mcp-acs.showMenu,
\* whichever it obtained first.
C33_CommandBound ==
  \A i \in Inst :
    (statusBarItem[i] # Undefined /\ commandDisposable[i]) =>
      statusBarItem[i].command = SHOW_MENU_CMD

\* The item was created while mcp-acs.showMenu could not be registered; a
\* later first registration registered the command and bound it to the item
\* that existed.
C33_Witness ==
  /\ turn.op = "register"
  /\ \E i \in turn.applied :
       /\ \E k \in 1..Len(hostCalls) :
            /\ hostCalls[k].inst = i
            /\ hostCalls[k].call = "registerCommand"
            /\ hostCalls[k].arg = SHOW_MENU_CMD
            /\ hostCalls[k].ok
       /\ ItemCalls(hostCalls, i) = <<"show">>
       /\ lastError[i] = ERR_SHOW_MENU
       /\ commandDisposable[i]
       /\ statusBarItem[i] # Undefined
       /\ statusBarItem[i].command = SHOW_MENU_CMD
       /\ statusBarItem[i].visible

\* C34: in the deferred variant, in every state where no scheduled update
\* remains, the item exists, is shown and carries the size of the registry
\* as its tooltip when the registry is non-empty, and is absent or hidden
\* when the registry is empty; and in every state createStatusBarItem was
\* called at most once since the last dispose().
C34_DeferredSettles ==
  \A i \in Inst :
    /\ createCalls[i] <= 1
    /\ pending[i] = <<>> =>
         IF activeExtensions[i] # {}
           THEN /\ statusBarItem[i] # Undefined
                /\ statusBarItem[i].visible
                /\ statusBarItem[i].tooltip = Cardinality(activeExtensions[i])
           ELSE statusBarItem[i] = Undefined \/ ~statusBarItem[i].visible

\* Two registrations, then their two updates: the first update created the
\* item and already showed the count 2, the last one made only show().
C34_Witness ==
  /\ turn.op = "updateStatusBar"
  /\ pending[turn.inst] = <<>>
  /\ budget = MaxCalls - 2
  /\ Cardinality(activeExtensions[turn.inst]) = 2
  /\ ItemCalls(hostCalls, turn.inst) = <<"show">>
  /\ createCalls[turn.inst] = 1
  /\ statusBarItem[turn.inst].visible
  /\ statusBarItem[turn.inst].tooltip = 2

C36_IdInOneRegistry ==
  \A i, j \in Inst : i # j => activeExtensions[i] \cap activeExtensions[j] = {}

\* C37 (SpecRoundTrip): each instance registers and unregisters its own id.
\* Once every id that was registered has been unregistered after its last
\* registration and all calls have completed, the registry of every
\* instance is empty and no instance has a visible status bar item.
C37_AllUnregisteredEmpties ==
  (Quiet /\ NoDispose /\ trace # <<>> /\ refSet = {}) =>
    \A i \in Inst :
      /\ activeExtensions[i] = {}
      /\ statusBarItem[i] = Undefined \/ ~statusBarItem[i].visible

\* C38 (SpecFaults): in every state, also after a show() or hide() of the
\* host threw, the statusBarVisible field of an instance's diagnostic
\* snapshot tells whether its status bar item is visible: whether the item
\* exists and the last call of show() or hide() that succeeded was show().
C38_SnapshotVisibilityIsActual ==
  \A i \in Inst :
    getDiagnosticInfo(World, i).statusBarVisible
      = (IF statusBarItem[i] = Undefined THEN FALSE ELSE statusBarItem[i].visible)

\* The last call instance d issued that is a registerExtension or a dispose
\* is a dispose.
DisposedLast(d) ==
  \E k \in 1..Len(trace) :
    /\ trace[k].inst = d
    /\ trace[k].op = "dispose"
    /\ \A k2 \in (k + 1)..Len(trace) :
         ~(trace[k2].inst = d /\ trace[k2].op = "register")

\* C39 (SpecScenario): once an instance has called dispose() and until it
\* calls registerExtension again, a turn of a call made by another instance
\* changes neither its registry nor its status bar item: the registry stays
\* empty and no item is created.
C39_DisposedUntouchedByOthers ==
  [][\A d \in Inst :
       (DisposedLast(d) /\ turn'.inst # d) =>
         UNCHANGED <<activeExtensions[d], statusBarItem[d]>>]_vars

\* The createStatusBarItem calls instance i made in a turn with host calls cs.
CreateCalls(cs, i) ==
  {k \in 1..Len(cs) : cs[k].inst = i /\ cs[k].call = "createStatusBarItem"}

\* C40 (SpecFaults): for every instance and every turn.  The instance calls
\* createStatusBarItem at most once, and only while it holds no item.  When
\* the call fails (it throws or returns undefined) the instance holds no
\* item after the turn and lastError is the message of that failure, unless
\* a later host call of the instance failed in the same turn.  When the call
\* succeeds the instance holds the item.  A turn that changes the registry
\* of an instance without item and leaves it non-empty calls
\* createStatusBarItem.  Only dispose() of the instance drops the item.
\* Hence at most one creation succeeds between two dispose() calls.
C40_CreationFailureRetried ==
  [][\A i \in Inst :
       LET cs == CreateCalls(hostCalls', i)
       IN /\ Cardinality(cs) <= 1
          /\ \A k \in cs :
               /\ statusBarItem[i] = Undefined
               /\ hostCalls'[k].ok => statusBarItem'[i] # Undefined
               /\ ~hostCalls'[k].ok =>
                    /\ statusBarItem'[i] = Undefined
                    /\ (\A k2 \in FailedCalls(hostCalls') :
                          k2 > k => hostCalls'[k2].inst # i)
                         => lastError'[i] \in {ERR_CREATE, ERR_CREATE_UNDEFINED}
          /\ (/\ statusBarItem[i] = Undefined
              /\ activeExtensions'[i] # activeExtensions[i]
              /\ activeExtensions'[i] # {}) => cs # {}
          /\ (statusBarItem[i] # Undefined /\ statusBarItem'[i] = Undefined)
               => (turn'.op = "dispose" /\ turn'.inst = i)]_vars

\* The creation failed at an earlier registration; a later turn changed the
\* registry, called createStatusBarItem again and holds the item, the
\* second the host was asked for since the last dispose().
C40_Witness ==
  \E i \in Inst :
    /\ \E k \in CreateCalls(hostCalls, i) : hostCalls[k].ok
    /\ createCalls[i] = 2
    /\ statusBarItem[i] # Undefined
    /\ statusBarItem[i].oid = 2
    /\ statusBarItem[i].visible
    /\ lastError[i] \in {ERR_CREATE, ERR_CREATE_UNDEFINED}
    /\ Cardinality(activeExtensions[i]) = 2

====
